---- MODULE Spec2Model ----
(***************************************************************************)
(* Acquisition-and-organization pipeline of the audiobook service:         *)
(*   app/internal/processing/processor.py  smart_copy,                     *)
(*                                         process_completed_download,     *)
(*                                         reorganize_existing_book        *)
(*   app/routers/api/downloads.py          create_download,                *)
(*                                         delete_download,                *)
(*                                         start_download_source           *)
(*                                                                         *)
(* A path is a sequence of components and a component is a sequence of     *)
(* tokens (one-character strings, with a file extension kept as one        *)
(* token), so that os.path.abspath, os.path.splitext, str.lower and the    *)
(* natural sort are computed on the text and not assumed.                  *)
(***************************************************************************)
EXTENDS Integers, Sequences, FiniteSets, TLC

VARIABLES
    fs,        \* the filesystem: directories, directory entries, inode contents
    copyRun,   \* smart_copy: the arguments of the calls made and their outcomes
    labelRun,  \* the copy/rename loop's part labels, file by file
    sortRun,   \* the processor's file enumeration and the order it transfers in
    books,     \* Audiobook rows by asin (the catalog)
    requests,  \* AudiobookRequest rows, in insertion order
    sessions,  \* LibraryImportSession rows, by generated id
    logs,      \* RequestLogEvent rows: the newest one and the parity of their number
    torrents,  \* the torrents the download client holds, by the asin they are tagged with
    proc,      \* the process_completed_download task of each asin
    deleting,  \* the delete_download call of each asin, while it awaits the client
    ops,       \* how many handler calls and processor tasks have been started
    response,  \* what the step just taken answered: a handler's HTTP response or
               \* the way the processor task ended; NoResponse after any other step
    cache,     \* prowlarr_source_cache: per book, the age and the sources of its entry
    searches,  \* how many searches have been sent to the indexer aggregator
    destRun,   \* the destination folders computed for two catalog records
    reorgRun   \* reorganize_existing_book: the call's position and what it did

service_rows == <<books, requests, sessions, logs, torrents, proc, deleting, ops, response,
                  cache, searches>>
service == <<books, requests, sessions, logs, torrents, proc, deleting, ops, response,
             cache, searches, destRun, reorgRun>>
vars == <<fs, copyRun, labelRun, sortRun, service>>
\* what the handlers and the processor task leave alone
runs == <<copyRun, labelRun, sortRun, destRun, reorgRun>>
aside == <<runs, cache, searches>>

----------------------------------------------------------------------------
(* Bounds *)

\* smart_copy is invoked at most this many times on one pair of paths
MaxCalls == 3
\* the largest number of audio files of one book in the part-label runs
MaxLabelFiles == 120
\* the largest number of entries of a download payload
MaxFiles == 3
\* the number of files of the payloads the service downloads
MaxPayload == 2
\* the largest number of import sessions (collection completions)
MaxSessions == 1
\* handler calls and processor tasks in a run
MaxOps == 4
\* prowlarr_config.get_source_ttl, in clock ticks
SourceTtl == 2
\* searches sent to the indexer aggregator in a run
MaxSearches == 3

----------------------------------------------------------------------------
(* Paths *)

Dot == <<".">>
DotDot == <<"..">>

\* the process's working directory, against which relative paths resolve
Cwd == << <<"d", "l">> >>

RECURSIVE NormPath(_, _)
\* os.path.normpath on the components: "." is dropped, ".." removes the
\* component before it (and is dropped at the root)
NormPath(done, rest) ==
    IF rest = << >> THEN done
    ELSE LET c == Head(rest) IN
         IF c = Dot THEN NormPath(done, Tail(rest))
         ELSE IF c = DotDot
              THEN NormPath(IF done = << >> THEN done
                            ELSE SubSeq(done, 1, Len(done) - 1), Tail(rest))
              ELSE NormPath(Append(done, c), Tail(rest))

\* os.path.abspath(p) == normpath(join(getcwd(), p)); p is [abs, parts]
AbsPath(p) == NormPath(<< >>, IF p.abs THEN p.parts ELSE Cwd \o p.parts)

\* os.path.dirname / os.path.basename of an absolute path
DirName(path) == SubSeq(path, 1, Len(path) - 1)
BaseName(path) == path[Len(path)]

\* the proper, non-root ancestors of a path together with the path itself
Prefixes(path) == { SubSeq(path, 1, k) : k \in 1..Len(path) }

----------------------------------------------------------------------------
(* Filesystem: fs.dirs is the set of directories (the root << >> always    *)
(* exists), fs.files maps the path of a regular file to its inode and      *)
(* fs.data maps an inode to its content.  Two hardlinked paths share an    *)
(* inode.                                                                  *)

IsDir(f, path) == path = << >> \/ path \in f.dirs
IsFile(f, path) == path \in DOMAIN f.files
Exists(f, path) == IsDir(f, path) \/ IsFile(f, path)
Content(f, path) == f.data[f.files[path]]

\* an inode number not in use
NewIno(f) == CHOOSE n \in 1..(Cardinality(DOMAIN f.data) + 1) : n \notin DOMAIN f.data

\* inodes no directory entry refers to are freed
Collect(f) ==
    LET live == { f.files[p] : p \in DOMAIN f.files }
    IN [f EXCEPT !.data = [i \in live |-> f.data[i]]]

\* os.makedirs(dir, exist_ok=True)
MakeDirs(f, dir) ==
    IF \E q \in Prefixes(dir) : IsFile(f, q)
    THEN [fs |-> f, err |-> "FileExistsError"]
    ELSE [fs |-> [f EXCEPT !.dirs = f.dirs \cup Prefixes(dir)], err |-> "ok"]

\* os.link(s, d); xdev: the two paths are on different devices
Link(f, s, d, xdev) ==
    IF ~IsFile(f, s) THEN [fs |-> f, err |-> "FileNotFoundError"]
    ELSE IF Exists(f, d) THEN [fs |-> f, err |-> "FileExistsError"]
    ELSE IF ~IsDir(f, DirName(d)) THEN [fs |-> f, err |-> "FileNotFoundError"]
    ELSE IF xdev THEN [fs |-> f, err |-> "OSError"]
    ELSE [fs |-> [f EXCEPT !.files = (d :> f.files[s]) @@ f.files], err |-> "ok"]

\* os.remove(s)
Remove(f, s) ==
    IF ~IsFile(f, s) THEN [fs |-> f, err |-> "FileNotFoundError"]
    ELSE [fs |-> Collect([f EXCEPT !.files =
                            [p \in (DOMAIN f.files) \ {s} |-> f.files[p]]]),
          err |-> "ok"]

\* shutil.copy2(s, d): into the directory when d is one; SameFileError when
\* both names are the same file; an existing destination is truncated and
\* rewritten in place
CopyFile(f, s, d0) ==
    LET d == IF IsDir(f, d0) THEN Append(d0, BaseName(s)) ELSE d0 IN
    IF IsFile(f, s) /\ IsFile(f, d) /\ f.files[s] = f.files[d]
    THEN [fs |-> f, err |-> "SameFileError"]
    ELSE IF ~IsFile(f, s) THEN [fs |-> f, err |-> "FileNotFoundError"]
    ELSE IF IsDir(f, d) THEN [fs |-> f, err |-> "IsADirectoryError"]
    ELSE IF ~IsDir(f, DirName(d)) THEN [fs |-> f, err |-> "FileNotFoundError"]
    ELSE IF IsFile(f, d)
         THEN [fs |-> [f EXCEPT !.data[f.files[d]] = Content(f, s)], err |-> "ok"]
         ELSE LET i == NewIno(f) IN
              [fs |-> [f EXCEPT !.files = (d :> i) @@ f.files,
                                !.data = (i :> Content(f, s)) @@ f.data],
               err |-> "ok"]

\* the copy2 / remove tail of smart_copy (also its hardlink fallback)
CopyThenDelete(f, s, d, delete_source) ==
    LET c == CopyFile(f, s, d) IN
    IF c.err # "ok" THEN c
    ELSE IF delete_source THEN Remove(c.fs, s) ELSE c

\* smart_copy whose same-file guard compares the paths as written
SmartCopyRawCompare(f, src, dst, use_hardlinks, delete_source, xdev) ==
    LET s == AbsPath(src)
        d == AbsPath(dst)
    IN
    IF src = dst THEN [fs |-> f, err |-> "ok"]
    ELSE
      LET m == MakeDirs(f, DirName(d)) IN
      IF m.err # "ok" THEN m
      ELSE IF use_hardlinks
           THEN LET l == Link(m.fs, s, d, xdev) IN
                IF l.err = "ok"
                THEN (IF delete_source THEN Remove(l.fs, s) ELSE l)
                ELSE CopyThenDelete(m.fs, s, d, delete_source)
           ELSE CopyThenDelete(m.fs, s, d, delete_source)

\* smart_copy(src, dst, use_hardlinks, delete_source); the result is the
\* filesystem it leaves and the exception it raises ("ok": it returns)
SmartCopy(f, src, dst, use_hardlinks, delete_source, xdev) ==
    LET s == AbsPath(src)
        d == AbsPath(dst)
    IN
    IF s = d THEN [fs |-> f, err |-> "ok"]
    ELSE
      LET m == MakeDirs(f, DirName(d)) IN
      IF m.err # "ok" THEN m
      ELSE IF use_hardlinks
           THEN LET l == Link(m.fs, s, d, xdev) IN
                IF l.err = "ok"
                THEN (IF delete_source THEN Remove(l.fs, s) ELSE l)
                ELSE CopyThenDelete(m.fs, s, d, delete_source)
           ELSE CopyThenDelete(m.fs, s, d, delete_source)

----------------------------------------------------------------------------
(* The service's state *)

\* the audiobook identifiers; the second has the first as a prefix
Asin1 == <<"B", "0", "0", "1">>
Asin2 == <<"B", "0", "0", "1", "2">>
\* the audiobooks of a run
Asins == DOMAIN books

\* download_progress in units of 1/6000, so that 0.90 + idx / total * 0.02
\* is a whole number for every total up to 6
Pct(hundredths) == hundredths * 60

\* a task that is not running
ProcIdle == [pc |-> "idle", collection |-> FALSE, delete_source |-> FALSE,
             use_hardlinks |-> FALSE, files |-> << >>, idx |-> 0, sid |-> 0]

\* no destination folder computed, no reorganizer call made
DestIdle == [books |-> << >>, folders |-> << >>]
ReorgIdle == [pc |-> "idle", source |-> << >>, dest |-> << >>,
              before |-> [dirs |-> {}, files |-> << >>, data |-> << >>],
              audio |-> << >>, moves |-> << >>, made |-> {}, removed |-> {},
              fails |-> {}, pruned |-> << >>, path |-> << >>, stop |-> "none"]

\* the request log before any event is written
NoLogs == [n |-> 0, last |-> "none", level |-> "info", asin |-> << >>]

\* no cache entry
NoEntry == [age |-> -1, sources |-> {}]

NoResponse == [op |-> "none", asin |-> << >>, code |-> 0, detail |-> "none", job |-> << >>]

\* the service with nothing requested yet, for the audiobooks in `asins`
ServiceRows(asins) ==
    /\ books = [a \in asins |-> [exists |-> FALSE, downloaded |-> FALSE, cover |-> FALSE]]
    /\ requests = << >>
    /\ sessions = << >>
    /\ logs = NoLogs
    /\ torrents = {}
    /\ proc = [a \in asins |-> ProcIdle]
    /\ deleting = [a \in asins |-> "no"]
    /\ ops = 0
    /\ response = NoResponse
    /\ cache = [a \in asins |-> NoEntry]
    /\ searches = 0

ServiceStart(asins) ==
    /\ ServiceRows(asins)
    /\ destRun = DestIdle
    /\ reorgRun = ReorgIdle

ServiceInit == ServiceStart({Asin1})

----------------------------------------------------------------------------
(* smart_copy on its own: every call of one run has the same arguments.    *)

SrcFile == << <<"d", "l">>, <<"a", ".mp3">> >>
DstFile == << <<"l", "i", "b">>, <<"x">>, <<"y", ".mp3">> >>

\* ways of writing the source and the destination
SrcSpellings ==
    { [abs |-> TRUE, parts |-> SrcFile],
      [abs |-> FALSE, parts |-> << <<"a", ".mp3">> >>],
      [abs |-> FALSE, parts |-> << Dot, <<"a", ".mp3">> >>] }
DstSpellings ==
    SrcSpellings \cup
    { [abs |-> TRUE, parts |-> DstFile],
      [abs |-> FALSE, parts |-> << DotDot, <<"l", "i", "b">>, <<"x">>, <<"y", ".mp3">> >>],
      [abs |-> TRUE, parts |-> << <<"d", "l">>, <<"b", ".mp3">> >>] }

FsEmpty == [dirs |-> { << <<"d", "l">> >> }, files |-> << >>, data |-> << >>]
\* the source exists; the destination is absent, present with other content,
\* or already a hardlink of the source
CopyInitialFs ==
    LET withSrc == [FsEmpty EXCEPT !.files = (SrcFile :> 1), !.data = (1 :> "d1")]
        libDirs == withSrc.dirs \cup Prefixes(DirName(DstFile))
    IN { FsEmpty,
         withSrc,
         [withSrc EXCEPT !.dirs = libDirs],
         [withSrc EXCEPT !.dirs = libDirs,
                         !.files = (DstFile :> 2) @@ withSrc.files,
                         !.data = (2 :> "d2") @@ withSrc.data],
         [withSrc EXCEPT !.dirs = libDirs,
                         !.files = (DstFile :> 1) @@ withSrc.files] }

LabelIdle == [who |-> "processor", total |-> 1, labels |-> << >>]
SortIdle == [mode |-> "dir", listing |-> << >>, phase |-> "done",
             files |-> << >>, assigned |-> << >>]

CopyIdle == [src |-> [abs |-> TRUE, parts |-> SrcFile],
             dst |-> [abs |-> TRUE, parts |-> DstFile],
             use_hardlinks |-> FALSE, delete_source |-> FALSE, xdev |-> FALSE,
             before |-> FsEmpty, errs |-> << >>]

InitCopy ==
    /\ fs \in CopyInitialFs
    /\ \E src \in SrcSpellings, dst \in DstSpellings,
          hl \in BOOLEAN, del \in BOOLEAN, xdev \in BOOLEAN :
         copyRun = [src |-> src, dst |-> dst, use_hardlinks |-> hl,
                    delete_source |-> del, xdev |-> xdev,
                    before |-> fs, errs |-> << >>]
    /\ labelRun = LabelIdle
    /\ sortRun = SortIdle
    /\ ServiceInit

\* one invocation of smart_copy with the run's arguments
SmartCopyCall ==
    /\ Len(copyRun.errs) < MaxCalls
    /\ LET r == SmartCopy(fs, copyRun.src, copyRun.dst, copyRun.use_hardlinks,
                          copyRun.delete_source, copyRun.xdev)
       IN /\ fs' = r.fs
          /\ copyRun' = [copyRun EXCEPT !.errs = Append(@, r.err)]
    /\ UNCHANGED <<labelRun, sortRun, service>>

NextCopy == SmartCopyCall

SpecCopy == InitCopy /\ [][NextCopy]_vars

----------------------------------------------------------------------------
(* Claims about smart_copy *)

\* the paths of the regular files a run has added to the filesystem
NewFiles == (DOMAIN fs.files) \ (DOMAIN copyRun.before.files)

\* a run that starts from an existing source and a destination that is a
\* different path and not there yet
FreshTransfer ==
    /\ IsFile(copyRun.before, AbsPath(copyRun.src))
    /\ AbsPath(copyRun.src) # AbsPath(copyRun.dst)
    /\ ~Exists(copyRun.before, AbsPath(copyRun.dst))

\* C5: smart_copy is idempotent: with source retention, in plain-copy and in
\* hardlink mode, two invocations with the same source and destination both
\* return without error and leave exactly one file at the destination, with
\* the source's content.
C5_SmartCopyIdempotent ==
    (FreshTransfer /\ ~copyRun.delete_source /\ Len(copyRun.errs) = 2)
    => /\ copyRun.errs = <<"ok", "ok">>
       /\ IsFile(fs, AbsPath(copyRun.dst))
       /\ Content(fs, AbsPath(copyRun.dst))
            = Content(copyRun.before, AbsPath(copyRun.src))
       /\ NewFiles = {AbsPath(copyRun.dst)}

\* C6: when source and destination resolve to the same absolute path, every
\* invocation of smart_copy returns normally and leaves the filesystem as it
\* was, whatever use_hardlinks and delete_source are.
C6_SamePathNoOp ==
    (AbsPath(copyRun.src) = AbsPath(copyRun.dst))
    => /\ fs = copyRun.before
       /\ \A i \in 1..Len(copyRun.errs) : copyRun.errs[i] = "ok"

\* C6 witness: a move (delete_source) in hardlink mode was invoked on an
\* existing file whose two spellings differ but resolve to the same path.
C6_Witness ==
    /\ AbsPath(copyRun.src) = AbsPath(copyRun.dst)
    /\ copyRun.src # copyRun.dst
    /\ copyRun.delete_source /\ copyRun.use_hardlinks
    /\ Len(copyRun.errs) >= 1
    /\ IsFile(fs, AbsPath(copyRun.src))

----------------------------------------------------------------------------
(* Text: digits, str.lower, extensions *)

DigitChars == <<"0", "1", "2", "3", "4", "5", "6", "7", "8", "9">>
IsDigit(t) == \E i \in 1..Len(DigitChars) : DigitChars[i] = t
DigitVal(t) == (CHOOSE i \in 1..Len(DigitChars) : DigitChars[i] = t) - 1

RECURSIVE Digits(_)
\* the decimal digits of n, as format(n, "d") writes them
Digits(n) ==
    IF n < 10 THEN <<DigitChars[n + 1]>>
    ELSE Append(Digits(n \div 10), DigitChars[(n % 10) + 1])

\* format(n, "0{width}d"): zero-filled on the left up to width, never cut
ZeroPad(n, width) ==
    LET d == Digits(n) IN
    [i \in 1..(IF width > Len(d) THEN width - Len(d) ELSE 0) |-> "0"] \o d

RECURSIVE DigitsValue(_)
\* int(digits)
DigitsValue(d) ==
    IF d = << >> THEN 0
    ELSE 10 * DigitsValue(SubSeq(d, 1, Len(d) - 1)) + DigitVal(d[Len(d)])

\* str.lower on a token
LowerMap == (".MP3" :> ".mp3") @@ (".M4B" :> ".m4b") @@ ("B" :> "b") @@ ("P" :> "p")
Lower(t) == IF t \in DOMAIN LowerMap THEN LowerMap[t] ELSE t

\* the recognised audio extensions
AudioExts == {".m4b", ".mp3", ".m4a", ".flac", ".wav", ".ogg", ".opus", ".aac", ".wma"}
\* every extension token of the model
ExtTokens == AudioExts \cup {".MP3", ".M4B", ".txt", ".jpg"}

\* any(file.lower().endswith(ext) for ext in [...]) on a file name
HasAudioExt(name) == name # << >> /\ Lower(name[Len(name)]) \in AudioExts

\* os.path.splitext(path)[1].lower()
SplitExtLower(path) ==
    LET name == BaseName(path) IN
    IF name # << >> /\ name[Len(name)] \in ExtTokens
    THEN Lower(name[Len(name)]) ELSE ""

----------------------------------------------------------------------------
(* Part labels *)

\* padding = 3 if len(audio_files_to_process) >= 100 else 2, with the
\* comparison turned into "> 100"
PaddingOffByOne(total) == IF total > 100 THEN 3 ELSE 2

\* padding = 3 if len(audio_files_to_process) >= 100 else 2
Padding(total) == IF total >= 100 THEN 3 ELSE 2

PartWord == <<"P", "a", "r", "t", " ">>

\* part_str = f"Part {idx:0{padding}d}" if total_files > 1 else ""
PartStr(idx, total) ==
    IF total > 1 THEN PartWord \o ZeroPad(idx, Padding(total)) ELSE << >>

\* the reorganizer's padding and part_str
ReorgPadding(n) == IF n >= 100 THEN 3 ELSE 2
ReorgPartStr(idx, n) ==
    IF n > 1 THEN PartWord \o ZeroPad(idx, ReorgPadding(n)) ELSE << >>

InitLabel ==
    /\ fs = FsEmpty
    /\ ServiceInit
    /\ copyRun = CopyIdle
    /\ sortRun = SortIdle
    /\ \E who \in {"processor", "reorganizer"}, n \in 1..MaxLabelFiles :
         labelRun = [who |-> who, total |-> n, labels |-> << >>]

\* one iteration of enumerate(audio_files_to_process, 1) in the processor
ProcessorLabel ==
    /\ labelRun.who = "processor"
    /\ Len(labelRun.labels) < labelRun.total
    /\ labelRun' = [labelRun EXCEPT !.labels =
                      Append(@, PartStr(Len(@) + 1, labelRun.total))]
    /\ UNCHANGED <<fs, copyRun, sortRun, service>>

\* one iteration of enumerate(audio_files, 1) in the reorganizer
ReorganizerLabel ==
    /\ labelRun.who = "reorganizer"
    /\ Len(labelRun.labels) < labelRun.total
    /\ labelRun' = [labelRun EXCEPT !.labels =
                      Append(@, ReorgPartStr(Len(@) + 1, labelRun.total))]
    /\ UNCHANGED <<fs, copyRun, sortRun, service>>

NextLabel == ProcessorLabel \/ ReorganizerLabel

SpecLabel == InitLabel /\ [][NextLabel]_vars

\* the digits of a label, after "Part "
LabelDigits(label) == SubSeq(label, Len(PartWord) + 1, Len(label))

\* C9: for N audio files the processor and the reorganizer label file i
\* "Part " followed by i, zero-padded to 2 digits when 2 <= N < 100 and to 3
\* digits when N >= 100; with N = 1 the label is empty; the labels of one run
\* are pairwise distinct.
C9_PartLabels ==
    /\ \A i \in 1..Len(labelRun.labels) :
         LET l == labelRun.labels[i] IN
         IF labelRun.total = 1 THEN l = << >>
         ELSE /\ SubSeq(l, 1, Len(PartWord)) = PartWord
              /\ \A k \in 1..Len(LabelDigits(l)) : IsDigit(LabelDigits(l)[k])
              /\ DigitsValue(LabelDigits(l)) = i
              /\ LET width == IF labelRun.total >= 100 THEN 3 ELSE 2 IN
                 /\ Len(LabelDigits(l)) >= width
                 /\ Len(LabelDigits(l)) > width => LabelDigits(l)[1] # "0"
    /\ Cardinality({ labelRun.labels[i] : i \in 1..Len(labelRun.labels) })
         = Len(labelRun.labels)

\* C9 witness: a run of exactly 100 files has labelled them all, the first
\* one "Part 001".
C9_Witness ==
    /\ labelRun.total = 100
    /\ Len(labelRun.labels) = 100
    /\ labelRun.labels[1] = PartWord \o <<"0", "0", "1">>

----------------------------------------------------------------------------
(* Natural sort (app.util.sort.natural_sort): the list is sorted in place,  *)
(* stably, on a key that splits the text into digit runs, compared as       *)
(* numbers, and the lower-cased text between them.                          *)

\* the lower-case text tokens in character order; a digit run sorts before
\* any of them at the same position
TextOrder == <<" ", "(", ")", ".aac", ".flac", ".jpg", ".m4a", ".m4b", ".mp3", ".ogg",
               ".opus", ".txt", ".wav", ".wma", "/",
               "a", "b", "c", "d", "e", "f", "g", "h", "i", "j", "k", "l", "m",
               "n", "o", "p", "q", "r", "s", "t", "u", "v", "w", "x", "y", "z">>
TextRank(t) == CHOOSE i \in 1..Len(TextOrder) : TextOrder[i] = Lower(t)

RECURSIVE JoinPath(_)
\* the text of an absolute path: "/" before each component
JoinPath(path) ==
    IF path = << >> THEN << >>
    ELSE <<"/">> \o Head(path) \o JoinPath(Tail(path))

RECURSIVE NaturalKey(_, _)
\* the sort key of a text: [num |-> TRUE, v |-> value of a digit run] and
\* [num |-> FALSE, v |-> rank of a lower-cased character]
NaturalKey(text, run) ==
    IF text = << >>
    THEN (IF run = << >> THEN << >> ELSE << [num |-> TRUE, v |-> DigitsValue(run)] >>)
    ELSE IF IsDigit(Head(text))
         THEN NaturalKey(Tail(text), Append(run, Head(text)))
         ELSE (IF run = << >> THEN << >> ELSE << [num |-> TRUE, v |-> DigitsValue(run)] >>)
              \o << [num |-> FALSE, v |-> TextRank(Head(text))] >>
              \o NaturalKey(Tail(text), << >>)

RECURSIVE KeyLess(_, _)
\* list comparison of two keys
KeyLess(k1, k2) ==
    IF k2 = << >> THEN FALSE
    ELSE IF k1 = << >> THEN TRUE
    ELSE LET a == Head(k1)
             b == Head(k2)
         IN IF a = b THEN KeyLess(Tail(k1), Tail(k2))
            ELSE IF a.num # b.num THEN a.num
            ELSE a.v < b.v

PathKey(path) == NaturalKey(JoinPath(path), << >>)

RECURSIVE InsertSorted(_, _)
\* insertion behind every element that is not greater: the sort is stable
InsertSorted(sorted, path) ==
    IF sorted = << >> THEN <<path>>
    ELSE IF KeyLess(PathKey(path), PathKey(Head(sorted)))
         THEN <<path>> \o sorted
         ELSE <<Head(sorted)>> \o InsertSorted(Tail(sorted), path)

RECURSIVE NaturalSort(_)
NaturalSort(paths) ==
    IF paths = << >> THEN << >>
    ELSE InsertSorted(NaturalSort(SubSeq(paths, 1, Len(paths) - 1)), paths[Len(paths)])

----------------------------------------------------------------------------
(* The processor's enumeration of the audio files of a download *)

\* the files os.walk(top) finds, in the order the walk yields them: `walk`
\* is the order in which the directory entries are discovered
WalkAudio(f, top, walk) ==
    SelectSeq(walk, LAMBDA p : IsFile(f, p) /\ HasAudioExt(BaseName(p)))

\* the enumeration without the natural sort of the walked files
AudioFilesUnsorted(f, source_paths, walk) ==
    IF Len(source_paths) = 1 /\ IsDir(f, source_paths[1])
    THEN WalkAudio(f, source_paths[1], walk)
    ELSE SelectSeq(source_paths, LAMBDA p : Exists(f, p) /\ ~IsDir(f, p))

\* audio_files_to_process: source_paths is download_path.split("|")
AudioFilesToProcess(f, source_paths, walk) ==
    IF Len(source_paths) = 1 /\ IsDir(f, source_paths[1])
    THEN NaturalSort(WalkAudio(f, source_paths[1], walk))
    ELSE SelectSeq(source_paths, LAMBDA p : Exists(f, p) /\ ~IsDir(f, p))

PayloadDir == << <<"d", "l">>, <<"t">> >>

\* the entries a payload is made of, relative to the payload directory, in
\* natural-sort order (ch1 and ch01 carry the same number: neither is before
\* the other)
PayloadNames ==
    << << <<"a", ".mp3">> >>,
       << <<"b", ".mp3">> >>,
       << <<"c", "d", "2">>, <<"a", ".mp3">> >>,
       << <<"c", "d", "1", "0">>, <<"a", ".mp3">> >>,
       << <<"c", "h", "1", ".mp3">> >>,
       << <<"c", "h", "0", "1", ".mp3">> >>,
       << <<"c", "h", "2", ".m4b">> >>,
       << <<"c", "h", "1", "0", ".mp3">> >>,
       << <<"d", ".MP3">> >>,
       << <<"n", ".txt">> >> >>
\* position in the natural order, the two ch1 spellings sharing one
NaturalRank(path) ==
    LET i == CHOOSE k \in 1..Len(PayloadNames) : PayloadDir \o PayloadNames[k] = path
    IN IF i = 6 THEN 5 ELSE i

\* the sequences over 1..Len(PayloadNames) without repetition, up to n long
Listings(n) ==
    UNION { { q \in [1..k -> 1..Len(PayloadNames)] :
                \A i, j \in 1..k : i # j => q[i] # q[j] } : k \in 0..n }

\* the filesystem holding the payload entries of a listing
PayloadFs(paths) ==
    LET files == { paths[i] : i \in 1..Len(paths) }
        ino(p) == CHOOSE i \in 1..Len(paths) : paths[i] = p
    IN [dirs |-> UNION { Prefixes(DirName(p)) : p \in files } \cup Prefixes(PayloadDir),
        files |-> [p \in files |-> ino(p)],
        data |-> [i \in 1..Len(paths) |-> BaseName(paths[i])]]

InitSort ==
    /\ ServiceInit
    /\ copyRun = CopyIdle
    /\ labelRun = LabelIdle
    /\ \E q \in Listings(MaxFiles), mode \in {"dir", "list"}, gone \in BOOLEAN :
         LET paths == [i \in 1..Len(q) |-> PayloadDir \o PayloadNames[q[i]]]
             \* in a list, an entry may be missing on disk or be a directory
             onDisk == IF mode = "list" /\ gone /\ Len(paths) > 0
                       THEN Tail(paths) ELSE paths
         IN /\ fs = PayloadFs(onDisk)
            /\ sortRun = [mode |-> mode,
                          listing |-> IF mode = "list" THEN paths \o <<PayloadDir>>
                                      ELSE paths,
                          phase |-> "walk", files |-> << >>, assigned |-> << >>]

\* lines 166-190: the enumeration
SortEnumerate ==
    /\ sortRun.phase = "walk"
    /\ sortRun' = [sortRun EXCEPT
                     !.phase = "copy",
                     !.files = AudioFilesToProcess(fs,
                                 IF sortRun.mode = "dir" THEN <<PayloadDir>>
                                 ELSE sortRun.listing,
                                 sortRun.listing)]
    /\ UNCHANGED <<fs, copyRun, labelRun, service>>

\* one iteration of the copy/rename loop: the next file and its part label
SortTransfer ==
    /\ sortRun.phase = "copy"
    /\ Len(sortRun.assigned) < Len(sortRun.files)
    /\ LET idx == Len(sortRun.assigned) + 1 IN
       sortRun' = [sortRun EXCEPT !.assigned =
                     Append(@, [src |-> sortRun.files[idx],
                                part |-> PartStr(idx, Len(sortRun.files))])]
    /\ UNCHANGED <<fs, copyRun, labelRun, service>>

NextSort == SortEnumerate \/ SortTransfer

SpecSort == InitSort /\ [][NextSort]_vars

\* the audio files under the payload directory
AudioOnDisk == { p \in DOMAIN fs.files : HasAudioExt(BaseName(p)) }
SeqRange(q) == { q[i] : i \in 1..Len(q) }

----------------------------------------------------------------------------
(* The request rows and the catalog *)

\* _get_request: the index of the first row of the asin, 0 when there is none
GetRequest(reqs, a) ==
    IF \E i \in 1..Len(reqs) : reqs[i].asin = a
    THEN CHOOSE i \in 1..Len(reqs) :
           reqs[i].asin = a /\ \A j \in 1..(i - 1) : reqs[j].asin # a
    ELSE 0

HasRequest(reqs, a) == GetRequest(reqs, a) # 0
RequestOf(reqs, a) == reqs[GetRequest(reqs, a)]

\* AudiobookRequest(asin=asin, user_username=...): the column defaults
NewRequest(a) ==
    [asin |-> a, processing_status |-> "pending", download_progress |-> 0,
     torrent_hash |-> "None", download_state |-> "None", mam_id |-> FALSE]

\* the UPDATE a commit issues for the request object of an asin
UpdateRequest(reqs, a, status, progress) ==
    [i \in 1..Len(reqs) |->
       IF reqs[i].asin = a
       THEN [reqs[i] EXCEPT !.processing_status = status, !.download_progress = progress]
       ELSE reqs[i]]

\* delete(AudiobookRequest).where(asin == a)
DeleteRequests(reqs, a) == SelectSeq(reqs, LAMBDA r : r.asin # a)

\* _job_view(book, req)
JobView(bks, reqs, a) ==
    IF HasRequest(reqs, a)
    THEN [status |-> RequestOf(reqs, a).processing_status,
          progress |-> RequestOf(reqs, a).download_progress,
          torrent_hash |-> RequestOf(reqs, a).torrent_hash,
          download_state |-> RequestOf(reqs, a).download_state,
          downloaded |-> bks[a].downloaded]
    ELSE [status |-> "not_queued", progress |-> 0, torrent_hash |-> "None",
          download_state |-> "None", downloaded |-> bks[a].downloaded]

\* log_request_event(session, asin, user, message)
LogEvent(lg, a, message, level) ==
    [n |-> 1 - lg.n, last |-> message, level |-> level, asin |-> a]

\* the processor's synchronous stretches hold the event loop: no coroutine
\* (handler or other task) runs until the task reaches an await
RunningPcs == {"copy"}
EventLoopFree == \A b \in Asins : proc[b].pc \notin RunningPcs

----------------------------------------------------------------------------
(* create_download *)

Reject(op, a, code, detail) ==
    response' = [op |-> op, asin |-> a, code |-> code, detail |-> detail, job |-> << >>]

\* a 2xx response
Respond(op, a, code, job) ==
    response' = [op |-> op, asin |-> a, code |-> code, detail |-> "ok", job |-> job]

\* lines 114-121: the reset of an existing request
ReopenRequest(reqs, a) ==
    [i \in 1..Len(reqs) |->
       IF i = GetRequest(reqs, a)
       THEN [reqs[i] EXCEPT !.processing_status = "pending", !.download_progress = 0,
                            !.torrent_hash = "None", !.download_state = "None"]
       ELSE reqs[i]]

\* lines 112-141 without the lookup of the existing request
QueueRequestAlwaysInsert(reqs, a) == Append(reqs, NewRequest(a))

\* lines 112-141 with the reset keeping the old progress
QueueRequestKeepProgress(reqs, a) ==
    IF HasRequest(reqs, a)
    THEN [i \in 1..Len(reqs) |->
            IF i = GetRequest(reqs, a)
            THEN [reqs[i] EXCEPT !.processing_status = "pending",
                                 !.torrent_hash = "None", !.download_state = "None"]
            ELSE reqs[i]]
    ELSE Append(reqs, NewRequest(a))

\* lines 112-141: reset the existing request or insert a new one
QueueRequest(reqs, a) ==
    IF HasRequest(reqs, a) THEN ReopenRequest(reqs, a) ELSE Append(reqs, NewRequest(a))

\* lines 102-110 rejecting only a downloaded book that is on disk
LibraryRejectsBoth(existing, downloaded, in_library_on_disk) ==
    IF in_library_on_disk /\ existing /\ downloaded
    THEN "Book already exists in library folder" ELSE "ok"

\* lines 102-110: the two library checks, "ok" when the request is accepted
LibraryRejects(existing, downloaded, in_library_on_disk) ==
    IF in_library_on_disk /\ ~(existing /\ ~downloaded)
    THEN "Book already exists in library folder"
    ELSE IF existing /\ downloaded THEN "Book already in library"
    ELSE "ok"

\* create_download(asin, region).  Its one await (get_book_by_asin, line 89)
\* comes before it reads any row, so the handler is one step.  region_ok:
\* the region is known; fetched: the book lookup found the book, with or
\* without a cover; in_library_on_disk: library_contains_asin(session, asin);
\* logged: log_request_event (lines 121-127, 134-140), called after the
\* request is committed, writes its event; if it raises the call answers 500
CreateDownload(a, region_ok, fetched, cover, in_library_on_disk, logged) ==
    /\ ops < MaxOps
    /\ ops' = ops + 1
    /\ EventLoopFree
    /\ IF ~region_ok
       THEN /\ Reject("create", a, 400, "Invalid region")
            /\ UNCHANGED <<books, requests, logs>>
       ELSE IF ~fetched
       THEN /\ Reject("create", a, 404, "Book not found")
            /\ UNCHANGED <<books, requests, logs>>
       ELSE
         LET existing == books[a].exists
             merged == IF existing THEN books
                       ELSE [books EXCEPT ![a] = [exists |-> TRUE, downloaded |-> FALSE,
                                                  cover |-> cover]]
             verdict == LibraryRejects(existing, books[a].downloaded, in_library_on_disk)
         IN /\ books' = merged
            /\ IF verdict # "ok"
               THEN /\ Reject("create", a, 400, verdict)
                    /\ UNCHANGED <<requests, logs>>
               ELSE /\ requests' = QueueRequest(requests, a)
                    /\ IF logged
                       THEN /\ logs' = LogEvent(logs, a,
                                         IF HasRequest(requests, a) THEN "Download re-opened."
                                         ELSE "Download created.", "info")
                            /\ Respond("create", a, 201, JobView(merged, requests', a))
                       ELSE /\ logs' = logs
                            /\ Reject("create", a, 500, "Internal Server Error")
    /\ UNCHANGED <<fs, aside, sessions, torrents, proc, deleting>>

----------------------------------------------------------------------------
(* delete_download *)

RECURSIVE IsInfix(_, _)
\* needle in text
IsInfix(needle, text) ==
    IF Len(needle) > Len(text) THEN FALSE
    ELSE IF SubSeq(text, 1, Len(needle)) = needle THEN TRUE
    ELSE IsInfix(needle, Tail(text))

AsinTag(a) == <<"a", "s", "i", "n", ":">> \o a
\* f"asin:{asin}" in t.get("tags", ""), for the torrent tagged with asin t
TagMatches(a, t) == IsInfix(AsinTag(a), AsinTag(t))

\* the directory the download client saves the torrent of an asin in
DownloadDir(a) == << <<"d", "l">>, a >>

\* the client removes a torrent's files
DropPayload(f, gone) ==
    Collect([f EXCEPT !.files =
               [p \in { q \in DOMAIN f.files :
                          \A t \in gone : SubSeq(q, 1, 2) # DownloadDir(t) } |-> f.files[p]]])

\* lines 210-218 with the client's exception skipping the row's removal
RowsAfterDeleteUnlessRaised(reqs, a, raised) ==
    IF raised THEN reqs ELSE DeleteRequests(reqs, a)

\* lines 210-218: the client's exception is logged and swallowed, then the
\* rows of the asin are deleted
RowsAfterDelete(reqs, a, raised) == DeleteRequests(reqs, a)

\* lines 194-198, and 217-224 when the client is disabled
DeleteStart(a, qbit_enabled, delete_files) ==
    /\ ops < MaxOps
    /\ ops' = ops + 1
    /\ EventLoopFree
    /\ deleting[a] = "no"
    /\ IF qbit_enabled
       THEN /\ deleting' = [deleting EXCEPT ![a] = IF delete_files THEN "files" ELSE "keep"]
            /\ response' = NoResponse
            /\ UNCHANGED requests
       ELSE /\ requests' = RowsAfterDelete(requests, a, FALSE)
            /\ Respond("delete", a, 204, [client |-> "disabled"])
            /\ UNCHANGED deleting
    /\ UNCHANGED <<fs, aside, books, sessions, logs, torrents, proc>>

\* lines 199-224 from the first await on: the client lists the torrents and
\* removes the matching ones, all of them unless it raises (raised: while
\* listing or removing; removed: the ones it got to), then the rows go
DeleteFinish(a, removed, raised) ==
    /\ EventLoopFree
    /\ deleting[a] # "no"
    /\ removed \subseteq { t \in torrents : TagMatches(a, t) }
    /\ ~raised => removed = { t \in torrents : TagMatches(a, t) }
    /\ torrents' = torrents \ removed
    /\ fs' = IF deleting[a] = "files" THEN DropPayload(fs, removed) ELSE fs
    /\ requests' = RowsAfterDelete(requests, a, raised)
    /\ Respond("delete", a, 204, [client |-> IF raised THEN "raised" ELSE "ok"])
    /\ deleting' = [deleting EXCEPT ![a] = "no"]
    /\ UNCHANGED <<aside, ops, books, sessions, logs, proc>>

----------------------------------------------------------------------------
(* start_download_source and the download monitor *)

\* start_download_source(asin, body).  source_found: the result cache holds
\* the chosen (guid, indexer_id); success: what start_download returns, which
\* on success stores the torrent hash (and the source's mam id) on the
\* request and moves it to the downloading state
StartDownloadSource(a, source_found, success, mam) ==
    /\ ops < MaxOps
    /\ ops' = ops + 1
    /\ EventLoopFree
    /\ IF ~(HasRequest(requests, a) /\ books[a].exists /\ ~books[a].downloaded)
       THEN /\ Reject("download", a, 404, "Active download for this audiobook not found.")
            /\ UNCHANGED <<requests, torrents>>
       ELSE IF ~source_found
       THEN /\ Reject("download", a, 404, "Source not found in cache for this book.")
            /\ UNCHANGED <<requests, torrents>>
       ELSE IF ~success
       THEN /\ Reject("download", a, 500, "Failed to start download")
            /\ UNCHANGED <<requests, torrents>>
       ELSE /\ requests' = [i \in 1..Len(requests) |->
                              IF requests[i].asin = a
                              THEN [requests[i] EXCEPT !.processing_status = "downloading",
                                                       !.torrent_hash = "hash",
                                                       !.mam_id = mam]
                              ELSE requests[i]]
            /\ torrents' = torrents \cup {a}
            /\ Respond("download", a, 204, << >>)
    /\ UNCHANGED <<fs, aside, books, sessions, logs, proc, deleting>>

\* the monitor mirrors the client's progress on the request while the torrent
\* downloads: up to 0.90, never backwards
DownloadProgress(a, p) ==
    /\ EventLoopFree
    /\ HasRequest(requests, a)
    /\ RequestOf(requests, a).processing_status = "downloading"
    /\ RequestOf(requests, a).download_progress < p
    /\ requests' = UpdateRequest(requests, a, "downloading", p)
    /\ response' = NoResponse
    /\ UNCHANGED <<fs, aside, ops, books, sessions, logs, torrents,
                   proc, deleting>>

\* the monitor gives up on a torrent the client reports as failed
DownloadFailed(a) ==
    /\ EventLoopFree
    /\ HasRequest(requests, a)
    /\ RequestOf(requests, a).processing_status = "downloading"
    /\ requests' = UpdateRequest(requests, a, "failed",
                                 RequestOf(requests, a).download_progress)
    /\ response' = NoResponse
    /\ UNCHANGED <<fs, aside, ops, books, sessions, logs, torrents,
                   proc, deleting>>

----------------------------------------------------------------------------
(* process_completed_download *)

LibRoot == << <<"l", "i", "b">> >>
BookAuthor(a) == <<"x">>
BookTitle(a) == IF a = Asin1 THEN <<"y">> ELSE <<"z">>
BookYear(a) == <<"2", "0", "2", "0">>

\* lines 128-130: get_book_folder_path(session, book), and when it gives
\* no path f"{author}/{book.title} ({year})"
FolderRelPathOf(folder_path, author, title, year) ==
    IF folder_path # << >> THEN folder_path
    ELSE << author, title \o <<" ", "(">> \o year \o <<")">> >>

FolderRelPath(a) == FolderRelPathOf(<< >>, BookAuthor(a), BookTitle(a), BookYear(a))

\* dest_path = os.path.join(lib_root, folder_rel_path)
DestPath(a) == LibRoot \o FolderRelPath(a)

\* generate_audiobook_filename(book, file_pattern, part_str, ext) with the
\* pattern "{title}"
GenerateFilename(a, part_str, ext) ==
    BookTitle(a) \o (IF part_str = << >> THEN << >> ELSE <<" ">> \o part_str) \o <<ext>>

\* the files of a downloaded payload, in the order a directory walk finds them
WalkNames == << <<"b", ".mp3">>, <<"a", ".mp3">>, <<"c", ".mp3">>, <<"d", ".mp3">> >>
PayloadPaths(a, n) == [i \in 1..n |-> DownloadDir(a) \o <<WalkNames[i]>>]

RECURSIVE AddPayload(_, _, _)
AddPayload(f, paths, i) ==
    IF i > Len(paths) THEN f
    ELSE LET ino == NewIno(f) IN
         AddPayload([f EXCEPT !.dirs = @ \cup Prefixes(DirName(paths[i])),
                              !.files = (paths[i] :> ino) @@ @,
                              !.data = (ino :> paths[i]) @@ @],
                    paths, i + 1)

\* what os.walk(download_path) would list now
WalkOf(f, a) == SelectSeq(PayloadPaths(a, Len(WalkNames)), LAMBDA p : IsFile(f, p))

\* open(cover_path, "wb").write(content)
WriteCover(f, a) ==
    LET path == DestPath(a) \o << <<"c", "o", "v", "e", "r", ".jpg">> >> IN
    IF IsFile(f, path) THEN [f EXCEPT !.data[f.files[path]] = "cover"]
    ELSE LET ino == NewIno(f) IN
         [f EXCEPT !.files = (path :> ino) @@ @, !.data = (ino :> "cover") @@ @]

\* the task ends: it returns ("returned") or an exception leaves it; scan
\* is the outcome of the collection scan, if there was one
ProcEnd(a, exc, scan) ==
    /\ proc' = [proc EXCEPT ![a] = ProcIdle]
    /\ response' = [op |-> "process", asin |-> a, code |-> 0, detail |-> exc,
                    job |-> [scan |-> scan, sid |-> proc[a].sid]]

\* lines 249-263: progress and status once the files are transferred
StageMetadata == [status |-> "generating_metadata", progress |-> Pct(95)]
\* lines 269-270 writing organizing_files again
StageCoverBackToOrganizing == [status |-> "organizing_files", progress |-> Pct(98)]

\* lines 269-270
StageCover == [status |-> "saving_cover", progress |-> Pct(98)]
\* lines 297-298
StageCompleted == [status |-> "completed", progress |-> Pct(100)]

\* line 245 without its 0.90 base
CopyProgressNoBase(idx, total) == (idx * Pct(2)) \div total

\* line 245: 0.90 + (idx / total_files * 0.02)
CopyProgress(idx, total) == Pct(90) + (idx * Pct(2)) \div total

\* lines 75-91, reached with collection=True: the import session is created
\* and the scan awaited
CollectionBranch(a) ==
    /\ logs' = LogEvent(logs, a, "Collection download completed. Scanning folder for books (collection)", "info")
    /\ sessions' = Append(sessions, [root_path |-> DownloadDir(a), status |-> "scanning"])
    /\ proc' = [proc EXCEPT ![a] = [ProcIdle EXCEPT !.pc = "scan", !.collection = TRUE,
                                                    !.sid = Len(sessions) + 1]]
    /\ response' = NoResponse
    /\ UNCHANGED <<fs, requests>>

\* lines 124-190, reached with collection=False: the destination is made,
\* the files are enumerated and the request enters organizing_files
\* (the collection flag is carried for lines 141-143)
SingleBookBranch(a, collection, delete_source, source_paths, complete_action) ==
    LET made == MakeDirs(fs, DestPath(a))
        hl == complete_action = "hardlink"
        del0 == delete_source \/ complete_action = "move"
        del1 == IF collection THEN FALSE ELSE del0
    IN /\ fs' = made.fs
       /\ IF made.err # "ok"
          THEN /\ ProcEnd(a, made.err, "none")
               /\ UNCHANGED <<requests, logs>>
          ELSE /\ requests' = UpdateRequest(requests, a, "organizing_files",
                                            RequestOf(requests, a).download_progress)
               /\ logs' = LogEvent(logs, a, "Organizing and renaming files.", "info")
               /\ proc' = [proc EXCEPT ![a] =
                     [ProcIdle EXCEPT
                        !.pc = IF RequestOf(requests, a).mam_id THEN "enrich" ELSE "copy",
                        !.collection = collection,
                        !.delete_source = del1, !.use_hardlinks = hl,
                        !.files = AudioFilesToProcess(made.fs, source_paths, WalkOf(fs, a))]]
               /\ response' = NoResponse
       /\ UNCHANGED sessions

\* lines 75-122 without the return at line 122: the collection completion
\* goes on into the single-book steps
BranchOnCollectionFallThrough(a, collection, delete_source, source_paths, complete_action) ==
    SingleBookBranch(a, collection, delete_source, source_paths, complete_action)

\* line 76: if collection
BranchOnCollection(a, collection, delete_source, source_paths, complete_action) ==
    IF collection THEN CollectionBranch(a)
    ELSE SingleBookBranch(a, collection, delete_source, source_paths, complete_action)

\* lines 65-73 without the library root check
EntryCheckNoLibRoot(book_exists, lib_root) ==
    IF ~book_exists THEN "book_not_found" ELSE "ok"

\* lines 65-73: the catalog record and the library root are looked up
EntryCheck(book_exists, lib_root) ==
    IF ~book_exists THEN "book_not_found"
    ELSE IF ~lib_root THEN "library_path_not_configured"
    ELSE "ok"

\* process_completed_download is called for a request whose torrent has
\* finished; as_list: download_path is the pipe-delimited list of the
\* payload's files, else the payload directory.  Runs to its first await.
ProcStart(a, collection, delete_source, as_list, lib_root, complete_action) ==
    /\ ops < MaxOps
    /\ ops' = ops + 1
    /\ EventLoopFree
    /\ proc[a].pc = "idle"
    /\ HasRequest(requests, a)
    /\ RequestOf(requests, a).processing_status = "downloading"
    /\ collection => Len(sessions) < MaxSessions
    /\ IF EntryCheck(books[a].exists, lib_root) # "ok"
       THEN /\ ProcEnd(a, EntryCheck(books[a].exists, lib_root), "none")
            /\ UNCHANGED <<fs, requests, sessions, logs>>
       ELSE BranchOnCollection(a, collection, delete_source,
                               IF as_list THEN WalkOf(fs, a) ELSE <<DownloadDir(a)>>,
                               complete_action)
    /\ UNCHANGED <<aside, books, torrents, deleting>>

\* a commit of the request's status and progress without the log event
ProcCommitNoLog(a, stage, message, next_pc) ==
    IF HasRequest(requests, a)
    THEN /\ requests' = UpdateRequest(requests, a, stage.status, stage.progress)
         /\ logs' = logs
         /\ IF next_pc = "idle" THEN ProcEnd(a, "returned", "none")
            ELSE /\ proc' = [proc EXCEPT ![a].pc = next_pc]
                 /\ response' = NoResponse
    ELSE /\ ProcEnd(a, "StaleDataError", "none")
         /\ UNCHANGED <<requests, logs>>

\* a commit of the request's status and progress with its log event; the
\* UPDATE of a row that is gone raises StaleDataError out of the task
ProcCommit(a, stage, message, next_pc) ==
    IF HasRequest(requests, a)
    THEN /\ requests' = UpdateRequest(requests, a, stage.status, stage.progress)
         /\ logs' = LogEvent(logs, a, message, "info")
         /\ IF next_pc = "idle" THEN ProcEnd(a, "returned", "none")
            ELSE /\ proc' = [proc EXCEPT ![a].pc = next_pc]
                 /\ response' = NoResponse
    ELSE /\ ProcEnd(a, "StaleDataError", "none")
         /\ UNCHANGED <<requests, logs>>

EnrichOutcomes == {"found", "none", "raised"}

\* lines 194-230 without the except clause
EnrichPropagates(outcome) == outcome # "raised"

\* lines 229-230: except Exception: pass
EnrichSwallows(outcome) == TRUE

\* lines 192-230: the enrichment lookup finds details ("found"), finds
\* none or raises; the task goes on to the copy loop
ProcEnrichDone(a, outcome) ==
    /\ EventLoopFree
    /\ proc[a].pc = "enrich"
    /\ IF EnrichSwallows(outcome)
       THEN /\ proc' = [proc EXCEPT ![a].pc = "copy"]
            /\ response' = NoResponse
       ELSE ProcEnd(a, "Exception", "none")
    /\ UNCHANGED <<fs, aside, ops, books, requests, sessions, logs,
                   torrents, deleting>>

\* lines 236-241: the path the idx-th of total files is transferred to
DestFile(a, idx, total, s_path) ==
    DestPath(a) \o << GenerateFilename(a, PartStr(idx, total), SplitExtLower(s_path)) >>

\* lines 235-247: one iteration of the copy/rename loop; xdev: os.link
\* raises OSError for this pair of paths
ProcCopyFile(a, xdev) ==
    /\ proc[a].pc = "copy"
    /\ proc[a].idx < Len(proc[a].files)
    /\ LET idx == proc[a].idx + 1
           total == Len(proc[a].files)
           s_path == proc[a].files[idx]
           d_path == DestFile(a, idx, total, s_path)
           r == SmartCopy(fs, [abs |-> TRUE, parts |-> s_path],
                          [abs |-> TRUE, parts |-> d_path],
                          proc[a].use_hardlinks, proc[a].delete_source, xdev)
       IN /\ fs' = r.fs
          /\ IF r.err # "ok"
             THEN /\ ProcEnd(a, r.err, "none")
                  /\ UNCHANGED requests
             ELSE IF ~HasRequest(requests, a)
             THEN /\ ProcEnd(a, "StaleDataError", "none")
                  /\ UNCHANGED requests
             ELSE /\ requests' = UpdateRequest(requests, a,
                                   RequestOf(requests, a).processing_status,
                                   CopyProgress(idx, total))
                  /\ proc' = [proc EXCEPT ![a].idx = idx]
                  /\ response' = NoResponse
    /\ UNCHANGED <<aside, ops, books, sessions, logs, torrents, deleting>>

\* lines 249-265: after the loop the book is marked downloaded, the request
\* enters generating_metadata and the sidecar generators are awaited
ProcFilesDone(a) ==
    /\ proc[a].pc = "copy"
    /\ proc[a].idx = Len(proc[a].files)
    /\ books' = [books EXCEPT ![a].downloaded = TRUE]
    /\ ProcCommit(a, StageMetadata, "Generating metadata files.", "metadata")
    /\ UNCHANGED <<fs, aside, ops, sessions, torrents, deleting>>

\* lines 266-279 and 297-307: the generators have returned; with a cover
\* url the request enters saving_cover and the fetch is awaited, without one
\* the import completes
ProcMetadataDone(a) ==
    /\ EventLoopFree
    /\ proc[a].pc = "metadata"
    /\ IF books[a].cover
       THEN ProcCommit(a, StageCover, "Saving cover image.", "cover")
       ELSE ProcCommit(a, StageCompleted, "Import completed.", "idle")
    /\ UNCHANGED <<fs, aside, ops, books, sessions, torrents, deleting>>

\* lines 280-307: the cover fetch ends ("saved": status 200 and the file is
\* written; "skipped": another status; "raised": an exception, swallowed)
\* and the import completes
ProcCoverDone(a, outcome) ==
    /\ EventLoopFree
    /\ proc[a].pc = "cover"
    /\ fs' = IF outcome = "saved" THEN WriteCover(fs, a) ELSE fs
    /\ ProcCommit(a, StageCompleted, "Import completed.", "idle")
    /\ UNCHANGED <<aside, ops, books, sessions, torrents, deleting>>

\* LibraryScanner.scan returning normally has marked its session completed
\* (the task only refreshes the row, line 97)
ScanSucceeded(sess, sid) == [sess EXCEPT ![sid].status = "completed"]

\* lines 105-108: the scan raised
ScanRaisedKeepScanning(sess, sid) == sess
ScanRaised(sess, sid) == [sess EXCEPT ![sid].status = "failed"]

\* lines 93-122: the scan returns (ok) or raises; the outcome is logged and
\* the request marked completed
ProcScanDone(a, ok) ==
    /\ EventLoopFree
    /\ proc[a].pc = "scan"
    /\ sessions' = IF ok THEN ScanSucceeded(sessions, proc[a].sid)
                   ELSE ScanRaised(sessions, proc[a].sid)
    /\ IF HasRequest(requests, a)
       THEN /\ requests' = UpdateRequest(requests, a, "completed",
                                         RequestOf(requests, a).download_progress)
            /\ logs' = LogEvent(logs, a,
                         IF ok THEN "Collection scan completed. Review/import items in Library > Import."
                         ELSE "Collection scan failed: error",
                         IF ok THEN "info" ELSE "error")
            /\ ProcEnd(a, "returned", IF ok THEN "ok" ELSE "raised")
       ELSE /\ ProcEnd(a, "StaleDataError", IF ok THEN "ok" ELSE "raised")
            /\ UNCHANGED <<requests, logs>>
    /\ UNCHANGED <<fs, aside, ops, books, torrents, deleting>>

----------------------------------------------------------------------------
(* The service *)

Init ==
    /\ ServiceInit
    /\ copyRun = CopyIdle
    /\ labelRun = LabelIdle
    /\ sortRun = SortIdle
    /\ \E n \in 0..MaxPayload : fs = AddPayload(FsEmpty, PayloadPaths(Asin1, n), 1)

CompleteActions == {"copy", "hardlink", "move"}
CoverOutcomes == {"saved", "skipped", "raised"}

\* a step of the process_completed_download task of a
ProcessorStep(a) ==
    \/ \E collection, delete_source, as_list, lib_root \in BOOLEAN,
          complete_action \in CompleteActions :
         ProcStart(a, collection, delete_source, as_list, lib_root, complete_action)
    \/ \E outcome \in EnrichOutcomes : ProcEnrichDone(a, outcome)
    \/ \E xdev \in BOOLEAN : ProcCopyFile(a, xdev)
    \/ ProcFilesDone(a)
    \/ ProcMetadataDone(a)
    \/ \E outcome \in CoverOutcomes : ProcCoverDone(a, outcome)
    \/ \E ok \in BOOLEAN : ProcScanDone(a, ok)

Next ==
    \E a \in Asins :
       \/ \E region_ok, fetched, cover, on_disk, logged \in BOOLEAN :
            CreateDownload(a, region_ok, fetched, cover, on_disk, logged)
       \/ \E qbit_enabled, delete_files \in BOOLEAN :
            DeleteStart(a, qbit_enabled, delete_files)
       \/ \E removed \in SUBSET torrents, raised \in BOOLEAN : DeleteFinish(a, removed, raised)
       \/ \E source_found, success, mam \in BOOLEAN :
            StartDownloadSource(a, source_found, success, mam)
       \/ \E p \in {Pct(45), Pct(90)} : DownloadProgress(a, p)
       \/ DownloadFailed(a)
       \/ ProcessorStep(a)

Spec == Init /\ [][Next]_vars

----------------------------------------------------------------------------
(* The claims about the service *)

RowsOf(a) == { i \in 1..Len(requests) : requests[i].asin = a }
Accepted == response.op = "create" /\ response.code = 201

\* C1: whatever create_download and delete_download calls have run, and
\* however they interleaved, there is at most one AudiobookRequest row per
\* asin
C1_OneRowPerAsin == \A a \in Asins : Cardinality(RowsOf(a)) <= 1

\* a create_download that found the row of its asin, accepted while a
\* delete_download of the same asin waits for the download client
C1_Witness ==
    /\ Accepted
    /\ logs.last = "Download re-opened."
    /\ deleting[response.asin] # "no"
    /\ Cardinality(RowsOf(response.asin)) = 1

\* C2: right after an accepted create_download the request of its asin is
\* pending with progress 0.0 and no torrent hash or download state, and the
\* returned job says the same
C2_AcceptedIsPending ==
    Accepted =>
      /\ HasRequest(requests, response.asin)
      /\ LET r == RequestOf(requests, response.asin) IN
           /\ r.processing_status = "pending"
           /\ r.download_progress = 0
           /\ r.torrent_hash = "None"
           /\ r.download_state = "None"
      /\ response.job.status = "pending"
      /\ response.job.progress = 0
      /\ response.job.torrent_hash = "None"
      /\ response.job.download_state = "None"

\* the fourth operation of a run is an accepted create_download that re-opens
\* the request; the three before it were create, start and a collection
\* completion whose scan has ended, so the request it found was completed
C2_Witness ==
    /\ Accepted
    /\ logs.last = "Download re-opened."
    /\ ops = 4
    /\ Len(sessions) = 1
    /\ sessions[1].status \in {"completed", "failed"}
    /\ deleting[response.asin] = "no"

\* C3: a step that lowers the download_progress of a request is a
\* create_download of its asin that re-queued the request (answering 201, or
\* 500 when the log event could not be written), and lowers it to 0.0
C3_ProgressMonotonic ==
    [][\A a \in Asins :
         (/\ HasRequest(requests, a)
          /\ HasRequest(requests', a)
          /\ RequestOf(requests', a).download_progress
               < RequestOf(requests, a).download_progress)
         => /\ response'.op = "create"
            /\ response'.code \in {201, 500}
            /\ response'.asin = a
            /\ RequestOf(requests', a).download_progress = 0]_vars

\* an import of two files has run through all its stages from a download
\* the monitor had brought to 0.90
C3_Witness ==
    /\ response.op = "process"
    /\ response.detail = "returned"
    /\ response.job.scan = "none"
    /\ HasRequest(requests, response.asin)
    /\ RequestOf(requests, response.asin).download_progress = Pct(100)
    /\ IsFile(fs, DestPath(response.asin) \o
                    <<GenerateFilename(response.asin, PartStr(2, 2), ".mp3")>>)

\* the step is a create_download for a that was answered after the two
\* early rejections (unknown region, book not found)
ReachedLibraryChecks(a) ==
    /\ response'.op = "create"
    /\ response'.asin = a
    /\ response'.detail \notin {"Invalid region", "Book not found"}

\* the step is a create_download for a with a known region and a fetched
\* book, library_contains_asin answering on_disk
CreateWith(a, on_disk) ==
    \E cover, logged \in BOOLEAN : CreateDownload(a, TRUE, TRUE, cover, on_disk, logged)

\* C4 as claimed: a create_download that gets as far as the library checks
\* is rejected exactly when the catalog record is marked downloaded and the
\* book is present on disk
C4_RejectsOnlyDownloadedOnDisk ==
    [][\A a \in Asins : \A on_disk \in BOOLEAN :
         (ReachedLibraryChecks(a) /\ CreateWith(a, on_disk))
         => ((response'.code = 400) <=> (books[a].downloaded /\ on_disk))]_vars

\* C4: a create_download that gets as far as the library checks is rejected
\* exactly when the catalog record is marked downloaded (on disk or not) or
\* the book is on disk and was not tracked before the call; a tracked book
\* not marked downloaded is accepted even when it is on disk
C4_LibraryRejection ==
    [][\A a \in Asins : \A on_disk \in BOOLEAN :
         (ReachedLibraryChecks(a) /\ CreateWith(a, on_disk))
         => ((response'.code = 400)
               <=> (books[a].downloaded \/ (on_disk /\ ~books[a].exists)))]_vars

\* a create_download was rejected for a book marked downloaded that is not
\* on disk
C4_Witness ==
    /\ response.op = "create"
    /\ response.code = 400
    /\ response.detail = "Book already in library"
    /\ books[response.asin].downloaded

\* C7: no step of a completion processed with collection=true creates,
\* removes, renames or rewrites a file
C7_CollectionKeepsFiles ==
    [][\A a \in Asins :
         (proc'[a] # proc[a] /\ (proc[a].collection \/ proc'[a].collection))
         => (fs'.files = fs.files /\ fs'.data = fs.data)]_vars

\* a collection completion has returned and the payload is where it was
C7_Witness ==
    /\ response.op = "process"
    /\ response.job.scan # "none"
    /\ response.detail = "returned"
    /\ Len(WalkOf(fs, response.asin)) = MaxPayload

\* while the scan is awaited the session the task created is scanning
C8_WhileScanning ==
    \A a \in Asins :
       proc[a].pc = "scan" =>
         /\ proc[a].sid \in 1..Len(sessions)
         /\ sessions[proc[a].sid] = [root_path |-> DownloadDir(a), status |-> "scanning"]

\* when the task ends the session is completed after a scan that returned
\* and failed after one that raised; the task returns normally and the
\* request, if its row still exists, is completed
C8_AtReturn ==
    (response.op = "process" /\ response.job.scan # "none") =>
       /\ sessions[response.job.sid].status =
            (IF response.job.scan = "ok" THEN "completed" ELSE "failed")
       /\ HasRequest(requests, response.asin) =>
            /\ response.detail = "returned"
            /\ RequestOf(requests, response.asin).processing_status = "completed"

\* a session that is completed or failed is never changed
C8_Terminal ==
    \A i \in 1..Len(sessions) :
       sessions[i].status \in {"completed", "failed"} =>
         (Len(sessions') >= i /\ sessions'[i] = sessions[i])

----------------------------------------------------------------------------
(* The stages of a single-book run *)

\* the pipeline order of the statuses the processor writes; the statuses a
\* request has before the processor takes it come first
StageRank(status) ==
    CASE status = "organizing_files" -> 1
      [] status = "generating_metadata" -> 2
      [] status = "saving_cover" -> 3
      [] status = "completed" -> 4
      [] OTHER -> 0

\* the step is one of the single-book processor task of a
SingleBookStep(a) ==
    /\ proc'[a] # proc[a]
    /\ ~proc[a].collection
    /\ ~proc'[a].collection

\* a status the task writes is a later stage than the one it replaces
C11_StagesForward ==
    \A a \in Asins :
       (/\ SingleBookStep(a)
        /\ HasRequest(requests, a)
        /\ HasRequest(requests', a)
        /\ RequestOf(requests', a).processing_status
             # RequestOf(requests, a).processing_status)
       => StageRank(RequestOf(requests', a).processing_status)
            > StageRank(RequestOf(requests, a).processing_status)

\* downloaded is set by the step that leaves the copy loop after the last
\* transfer, the step that enters generating_metadata
C11_DownloadedAfterTransfers ==
    \A a \in Asins :
       books'[a].downloaded # books[a].downloaded =>
         /\ books'[a].downloaded
         /\ proc[a].pc = "copy"
         /\ proc[a].idx = Len(proc[a].files)
         /\ HasRequest(requests, a) =>
              /\ proc'[a].pc = "metadata"
              /\ RequestOf(requests', a).processing_status = "generating_metadata"

\* not downloaded while files are still to be transferred, downloaded while
\* the metadata and the cover are produced
C11_DownloadedByStage ==
    \A a \in Asins :
       /\ proc[a].pc \in {"enrich", "copy"} => ~books[a].downloaded
       /\ proc[a].pc \in {"metadata", "cover"} => books[a].downloaded

\* a single-book run that returns leaves completed, 1.0 and downloaded
C11_EndsCompleted ==
    (/\ response.op = "process"
     /\ response.detail = "returned"
     /\ response.job.scan = "none") =>
       /\ books[response.asin].downloaded
       /\ HasRequest(requests, response.asin)
       /\ RequestOf(requests, response.asin).processing_status = "completed"
       /\ RequestOf(requests, response.asin).download_progress = Pct(100)

\* C11: in a single-book run the statuses the processor writes go
\* organizing_files, generating_metadata, saving_cover, completed, each a
\* later stage than the status it replaces; the catalog record becomes
\* downloaded after the last transfer, in the step that enters
\* generating_metadata; a run that returns ends completed, at 1.0, downloaded
C11_StageOrder ==
    /\ [](C11_DownloadedByStage /\ C11_EndsCompleted)
    /\ [][C11_StagesForward /\ C11_DownloadedAfterTransfers]_vars

\* a single-book run has gone through saving_cover and returned
C11_Witness ==
    /\ response.op = "process"
    /\ response.detail = "returned"
    /\ response.job.scan = "none"
    /\ books[response.asin].cover
    /\ books[response.asin].downloaded
    /\ RequestOf(requests, response.asin).processing_status = "completed"
    /\ IsFile(fs, DestPath(response.asin) \o << <<"c", "o", "v", "e", "r", ".jpg">> >>)

----------------------------------------------------------------------------
(* The processor task on its own: it is handed a request whose download has
   finished; the catalog may or may not hold the record of the asin *)

CatalogRows ==
    { [exists |-> FALSE, downloaded |-> FALSE, cover |-> FALSE],
      [exists |-> TRUE, downloaded |-> FALSE, cover |-> FALSE],
      [exists |-> TRUE, downloaded |-> FALSE, cover |-> TRUE] }

InitProc ==
    /\ copyRun = CopyIdle
    /\ labelRun = LabelIdle
    /\ sortRun = SortIdle
    /\ \E n \in 0..MaxPayload : fs = AddPayload(FsEmpty, PayloadPaths(Asin1, n), 1)
    /\ \E b \in CatalogRows : books = (Asin1 :> b)
    /\ \E p \in {0, Pct(90)}, mam \in BOOLEAN :
         requests = << [NewRequest(Asin1) EXCEPT !.processing_status = "downloading",
                                                 !.download_progress = p,
                                                 !.torrent_hash = "hash",
                                                 !.mam_id = mam] >>
    /\ sessions = << >>
    /\ logs = NoLogs
    /\ torrents = {Asin1}
    /\ proc = (Asin1 :> ProcIdle)
    /\ deleting = (Asin1 :> "no")
    /\ ops = 0
    /\ response = NoResponse
    /\ cache = (Asin1 :> NoEntry)
    /\ searches = 0
    /\ destRun = DestIdle
    /\ reorgRun = ReorgIdle

NextProc == \E a \in Asins : ProcessorStep(a)

SpecProc == InitProc /\ [][NextProc]_vars

\* C12: a process_completed_download that finds no catalog record for the
\* asin, or no configured library root, returns at once: the request, the
\* catalog, the import sessions, the log and the filesystem are as before,
\* with collection set or not
C12_FatalEntryNoMutation ==
    [][\A a \in Asins :
         \A collection, delete_source, as_list, lib_root \in BOOLEAN :
           \A complete_action \in CompleteActions :
             (/\ ProcStart(a, collection, delete_source, as_list, lib_root, complete_action)
              /\ (~books[a].exists \/ ~lib_root))
             => /\ UNCHANGED <<requests, books, sessions, logs, fs>>
                /\ proc'[a] = ProcIdle
                /\ response'.detail \in {"book_not_found", "library_path_not_configured"}]_vars

\* the task has returned because the catalog holds no record of the asin
C12_Witness ==
    /\ response.op = "process"
    /\ response.detail = "book_not_found"
    /\ ~books[response.asin].exists
    /\ RequestOf(requests, response.asin).processing_status = "downloading"

\* C13: when the task stops on an error (no catalog record, no library
\* root, a file transfer that raised) the request is failed and the newest
\* RequestLogEvent records the failure
C13_ErrorMarksFailed ==
    (/\ response.op = "process"
     /\ response.detail \notin {"returned", "StaleDataError"}
     /\ HasRequest(requests, response.asin)) =>
       /\ RequestOf(requests, response.asin).processing_status = "failed"
       /\ logs.level = "error"

\* an enrichment lookup that raises leaves the task at the copy loop with
\* the files it had enumerated, and changes nothing else
C14_EnrichmentSwallowed ==
    \A a \in Asins :
       ProcEnrichDone(a, "raised") =>
         /\ proc'[a] = [proc[a] EXCEPT !.pc = "copy"]
         /\ UNCHANGED <<requests, books, fs>>

\* a cover fetch that raises or answers another status than 200 completes
\* the import
C14_CoverSwallowed ==
    \A a \in Asins : \A outcome \in {"skipped", "raised"} :
       (ProcCoverDone(a, outcome) /\ HasRequest(requests, a)) =>
         /\ response'.detail = "returned"
         /\ books'[a].downloaded
         /\ RequestOf(requests', a).processing_status = "completed"
         /\ RequestOf(requests', a).download_progress = Pct(100)

\* past the copy loop every enumerated audio file is at its destination
C14_AllTransferred ==
    \A a \in Asins :
       proc[a].pc \in {"metadata", "cover"} =>
         /\ proc[a].idx = Len(proc[a].files)
         /\ \A i \in 1..Len(proc[a].files) :
              IsFile(fs, DestFile(a, i, Len(proc[a].files), proc[a].files[i]))

\* a single-book run that got past the entry checks returns, with the
\* request completed at 1.0 and the book downloaded
C14_RunCompletes ==
    (/\ response.op = "process"
     /\ response.job.scan = "none"
     /\ response.detail \notin {"book_not_found", "library_path_not_configured"}) =>
       /\ response.detail = "returned"
       /\ books[response.asin].downloaded
       /\ RequestOf(requests, response.asin).processing_status = "completed"
       /\ RequestOf(requests, response.asin).download_progress = Pct(100)

\* C14: neither a raising enrichment lookup nor a cover fetch that raises
\* or is refused aborts the single-book run: it transfers every audio file,
\* marks the book downloaded and ends completed at 1.0
C14_BestEffortSteps ==
    /\ [](C14_AllTransferred /\ C14_RunCompletes)
    /\ [][C14_EnrichmentSwallowed /\ C14_CoverSwallowed]_vars

\* a run for a request with a mam id and a book with a cover url has
\* completed although no cover was saved
C14_Witness ==
    /\ response.op = "process"
    /\ response.detail = "returned"
    /\ response.job.scan = "none"
    /\ RequestOf(requests, response.asin).mam_id
    /\ books[response.asin].cover
    /\ ~IsFile(fs, DestPath(response.asin) \o << <<"c", "o", "v", "e", "r", ".jpg">> >>)
    /\ RequestOf(requests, response.asin).processing_status = "completed"
    /\ IsFile(fs, DestFile(response.asin, 2, 2, PayloadPaths(response.asin, 2)[1]))

\* C15: a delete_download that has answered has answered 204 and left no
\* AudiobookRequest row of its asin, with the download client disabled,
\* raising, or done (with or without a matching torrent)
C15_DeleteRemovesRow ==
    response.op = "delete" =>
      /\ response.code = 204
      /\ ~HasRequest(requests, response.asin)
      /\ deleting[response.asin] = "no"

\* a delete_download whose client raised before it removed the torrent of
\* the asin has answered, and the row is gone
C15_Witness ==
    /\ response.op = "delete"
    /\ response.job.client = "raised"
    /\ response.asin \in torrents
    /\ logs.last # "none"
    /\ ~HasRequest(requests, response.asin)

----------------------------------------------------------------------------
(* The search-result cache: list_sources, refresh_source, the prowlarr
   settings handlers and start_download_source *)

\* the (guid, indexer_id) pairs a search can return
Sources == {"g1", "g2"}

\* an entry not older than the ttl
Fresh(e, ttl) == e.age >= 0 /\ e.age <= ttl

\* prowlarr_source_cache.get(ttl, key): the sources of a fresh entry, else
\* nothing
CacheGet(c, ttl, a) == IF Fresh(c[a], ttl) THEN c[a].sources ELSE {}

\* flush_prowlarr_cache(): every entry goes, whatever its age
FlushProwlarrCache(c) == [a \in DOMAIN c |-> NoEntry]

\* a settings handler that stores the value and leaves the cache alone
SettingsUpdateKeepsCache(c) == c

\* prowlarr.py lines 55-56, 69-70, 83-84, 97-98, 111-112: the value is
\* stored and the cache flushed
SettingsUpdateCache(c) == FlushProwlarrCache(c)

SettingKinds == {"api-key", "base-url", "categories", "default-language", "search-template"}

\* update_prowlarr_api_key, update_prowlarr_base_url,
\* update_indexer_categories, update_default_language,
\* update_search_template
UpdateProwlarrSetting(kind) ==
    /\ EventLoopFree
    /\ cache' = SettingsUpdateCache(cache)
    /\ response' = [op |-> kind, asin |-> << >>, code |-> 204, detail |-> "ok", job |-> << >>]
    /\ UNCHANGED <<fs, runs, books, requests, sessions, logs,
                   torrents, proc, deleting, ops, searches>>

\* time passes: the entries age, up to just past the ttl
Tick ==
    /\ \E a \in Asins : Fresh(cache[a], SourceTtl)
    /\ cache' = [a \in Asins |->
                   IF Fresh(cache[a], SourceTtl) THEN [cache[a] EXCEPT !.age = @ + 1]
                   ELSE cache[a]]
    /\ response' = NoResponse
    /\ UNCHANGED <<fs, runs, books, requests, sessions, logs,
                   torrents, proc, deleting, ops, searches>>

\* query_sources searching on every call
NeedsSearchAlways(c, ttl, a, force_refresh) == TRUE

\* query_sources: a search is sent unless a fresh entry exists and
\* force_refresh is false
NeedsSearch(c, ttl, a, force_refresh) == force_refresh \/ ~Fresh(c[a], ttl)

\* query_sources(asin, force_refresh, only_return_if_cached); results: what
\* the aggregator answers if it is asked
QuerySources(a, force_refresh, only_cached, results) ==
    IF ~only_cached /\ NeedsSearch(cache, SourceTtl, a, force_refresh)
    THEN /\ searches < MaxSearches
         /\ searches' = searches + 1
         /\ cache' = [cache EXCEPT ![a] = [age |-> 0, sources |-> results]]
    ELSE UNCHANGED <<cache, searches>>

\* list_sources(asin, only_cached), downloads.py lines 249-270
ListSources(a, config_valid, only_cached, results) ==
    /\ EventLoopFree
    /\ books[a].exists
    /\ IF ~config_valid
       THEN /\ Reject("sources", a, 400, "Prowlarr misconfigured")
            /\ UNCHANGED <<cache, searches>>
       ELSE /\ QuerySources(a, FALSE, only_cached, results)
            /\ Respond("sources", a, 200, CacheGet(cache', SourceTtl, a))
    /\ UNCHANGED <<fs, runs, books, requests, sessions, logs,
                   torrents, proc, deleting, ops>>

\* refresh_source(asin, force_refresh), downloads.py lines 225-246
RefreshSource(a, force_refresh, results) ==
    /\ EventLoopFree
    /\ books[a].exists
    /\ QuerySources(a, force_refresh, FALSE, results)
    /\ Respond("refresh", a, 202, << >>)
    /\ UNCHANGED <<fs, runs, books, requests, sessions, logs,
                   torrents, proc, deleting, ops>>

\* downloads.py lines 305-316: the chosen (guid, indexer_id) among the
\* cached sources
FindSource(srcs, pick) == IF pick \in srcs THEN pick ELSE "None"

\* start_download_source with the source looked up in the cache
StartFromCache(a, pick, success, mam) ==
    StartDownloadSource(a, FindSource(CacheGet(cache, SourceTtl, a), pick) # "None",
                        success, mam)

NextCache ==
    \/ \E a \in Asins :
         \/ \E region_ok, fetched, cover, on_disk, logged \in BOOLEAN :
              CreateDownload(a, region_ok, fetched, cover, on_disk, logged)
         \/ \E config_valid, only_cached \in BOOLEAN, results \in SUBSET Sources :
              ListSources(a, config_valid, only_cached, results)
         \/ \E force_refresh \in BOOLEAN, results \in SUBSET Sources :
              RefreshSource(a, force_refresh, results)
         \/ \E pick \in Sources, success, mam \in BOOLEAN :
              StartFromCache(a, pick, success, mam)
    \/ \E kind \in SettingKinds : UpdateProwlarrSetting(kind)
    \/ Tick

InitCache ==
    /\ ServiceInit
    /\ copyRun = CopyIdle
    /\ labelRun = LabelIdle
    /\ sortRun = SortIdle
    /\ fs = FsEmpty

SpecCache == InitCache /\ [][NextCache]_vars

\* a prowlarr settings update leaves no usable entry
C16_UpdateFlushes ==
    response'.op \in SettingKinds =>
       \A kind \in SettingKinds :
          UpdateProwlarrSetting(kind) => \A a \in Asins : cache'[a] = NoEntry

\* a start_download_source that finds no fresh entry for the book is
\* rejected with 404 and leaves the request and the client alone; for an
\* active request the rejection is the source-not-found one
C16_StaleStartRejected ==
    \A a \in Asins :
       (/\ response'.op = "download"
        /\ response'.asin = a
        /\ CacheGet(cache, SourceTtl, a) = {})
       => /\ response'.code = 404
          /\ UNCHANGED <<requests, torrents>>
          /\ (HasRequest(requests, a) /\ ~books[a].downloaded)
               => response'.detail = "Source not found in cache for this book."

\* C16: once the entry of a book has expired or any prowlarr settings
\* update has flushed the cache, start_download_source is rejected with
\* source-not-found, sends nothing to the download client and leaves the
\* request as it is
C16_StaleCacheRejected == [][C16_UpdateFlushes /\ C16_StaleStartRejected]_vars

\* sources were listed, the cache has since been emptied, and the start of
\* a pending request was rejected
C16_Witness ==
    /\ response.op = "download"
    /\ response.code = 404
    /\ response.detail = "Source not found in cache for this book."
    /\ searches > 0
    /\ cache[response.asin] = NoEntry
    /\ RequestOf(requests, response.asin).processing_status = "pending"

\* C17: a query_sources call without force_refresh sends a search exactly
\* when the book has no fresh entry (none yet, expired, or flushed): two
\* calls within the ttl send one search
C17_OneSearchPerTtl ==
    [][response'.op \in {"sources", "refresh"} =>
         \A a \in Asins : \A results \in SUBSET Sources :
            (ListSources(a, TRUE, FALSE, results) \/ RefreshSource(a, FALSE, results))
            => /\ searches' = searches + (IF Fresh(cache[a], SourceTtl) THEN 0 ELSE 1)
               /\ Fresh(cache'[a], SourceTtl)]_vars

\* the sources were listed from the cache after one search and some time
C17_Witness ==
    /\ response.op = "sources"
    /\ response.code = 200
    /\ searches = 1
    /\ cache[response.asin].age > 0
    /\ Fresh(cache[response.asin], SourceTtl)

----------------------------------------------------------------------------
(* The destination folder of two catalog records *)

Authors == { <<"x">>, <<"w">> }
Titles == { <<"y">>, <<"z">> }
Years == { <<"2", "0", "2", "0">>, <<"U", "n", "k", "n", "o", "w", "n">> }

\* what get_book_folder_path may give for a record: no path, or a path
\* of its own
FolderPaths(a) == { << >>, << <<"p">>, a >> }

\* the Audiobook rows an asin can have
CatalogRecords(a) ==
    { [asin |-> a, author |-> au, title |-> t, year |-> y, folder_path |-> f] :
        au \in Authors, t \in Titles, y \in Years, f \in FolderPaths(a) }

InitDest ==
    /\ fs = FsEmpty
    /\ copyRun = CopyIdle
    /\ labelRun = LabelIdle
    /\ sortRun = SortIdle
    /\ ServiceRows({Asin1, Asin2})
    /\ reorgRun = ReorgIdle
    /\ \E b1 \in CatalogRecords(Asin1), b2 \in CatalogRecords(Asin2) :
         destRun = [books |-> <<b1, b2>>, folders |-> << >>]

\* lines 124-132 for one catalog record: author, year, folder_rel_path
\* and dest_path = os.path.join(lib_root, folder_rel_path)
DestPathOf(book) ==
    LibRoot \o FolderRelPathOf(book.folder_path, book.author, book.title, book.year)

\* process_completed_download reaches line 132 for the next record
DestCompute ==
    /\ Len(destRun.folders) < Len(destRun.books)
    /\ destRun' = [destRun EXCEPT !.folders =
                     Append(@, DestPathOf(destRun.books[Len(destRun.folders) + 1]))]
    /\ UNCHANGED <<fs, copyRun, labelRun, sortRun, reorgRun, books, requests,
                   sessions, logs, torrents, proc, deleting, ops, response,
                   cache, searches>>

NextDest == DestCompute

SpecDest == InitDest /\ [][NextDest]_vars

\* C18: the destination folders computed for two catalog records with
\* different ASINs are different.
C18_DistinctDestinations ==
    Len(destRun.folders) = 2 =>
        (destRun.books[1].asin # destRun.books[2].asin
            => destRun.folders[1] # destRun.folders[2])

----------------------------------------------------------------------------
(* reorganize_existing_book (lines 310-430).  The call runs without an      *)
(* await up to the two metadata generators, so its stages follow each other *)
(* on an unchanged filesystem.  Paths are absolute and normalised, which    *)
(* makes os.path.abspath the identity on them.                              *)

\* os.path.commonpath([path, stop_at]) == stop_at
IsUnder(path, top) ==
    Len(top) <= Len(path) /\ SubSeq(path, 1, Len(top)) = top

\* os.listdir(dir)
ListDir(f, dir) ==
    { p \in f.dirs \cup DOMAIN f.files : Len(p) = Len(dir) + 1 /\ IsUnder(p, dir) }

\* os.rmdir(dir); raises: the call fails for a reason of its own
RmDir(f, dir, raises) ==
    IF ~IsDir(f, dir) THEN [fs |-> f, err |-> "FileNotFoundError"]
    ELSE IF ListDir(f, dir) # {} THEN [fs |-> f, err |-> "OSError"]
    ELSE IF raises THEN [fs |-> f, err |-> "PermissionError"]
    ELSE [fs |-> [f EXCEPT !.dirs = @ \ {dir}], err |-> "ok"]

\* shutil.move(s, d) of a regular file: os.rename, which replaces a file at
\* d; into d when d is a directory, unless the name is taken there
Move(f, s, d) ==
    LET real == IF IsDir(f, d) THEN d \o <<BaseName(s)>> ELSE d IN
    IF ~IsFile(f, s) THEN [fs |-> f, err |-> "FileNotFoundError"]
    ELSE IF IsDir(f, d) /\ Exists(f, real) THEN [fs |-> f, err |-> "Error"]
    ELSE IF ~IsDir(f, DirName(real)) THEN [fs |-> f, err |-> "FileNotFoundError"]
    ELSE [fs |-> Collect([f EXCEPT !.files =
                            [p \in ((DOMAIN f.files) \ {s}) \cup {real} |->
                               f.files[IF p = real THEN s ELSE p]]]),
          err |-> "ok"]

\* the directories and the files os.walk(top) visits
WalkDirs(f, top) == IF IsDir(f, top) THEN { q \in f.dirs : IsUnder(q, top) } ELSE {}
WalkFiles(f, top) ==
    IF IsDir(f, top) THEN { q \in DOMAIN f.files : IsUnder(q, top) } ELSE {}

RECURSIVE SetToSeq(_)
\* the members of a set in the order a walk yields them
SetToSeq(S) ==
    IF S = {} THEN << >>
    ELSE LET x == CHOOSE x \in S : TRUE IN <<x>> \o SetToSeq(S \ {x})

\* lines 354-370: the audio files under source_path, naturally sorted
ReorgAudioFiles(f, source) ==
    NaturalSort(SelectSeq(SetToSeq(WalkFiles(f, source)),
                          LAMBDA q : HasAudioExt(BaseName(q))))

\* lines 377-383: d_path of the idx-th of n audio files
ReorgDestFile(a, dest, idx, n, s_path) ==
    dest \o << GenerateFilename(a, ReorgPartStr(idx, n), SplitExtLower(s_path)) >>

RECURSIVE MoveAudio(_, _, _, _, _, _)
\* lines 375-385: every audio file is moved to its d_path unless it is
\* already there; an exception of shutil.move leaves the loop
MoveAudio(f, a, dest, audio, idx, moves) ==
    IF idx > Len(audio) THEN [fs |-> f, moves |-> moves, err |-> "ok"]
    ELSE LET s_path == audio[idx]
             d_path == ReorgDestFile(a, dest, idx, Len(audio), s_path)
         IN IF s_path = d_path
            THEN MoveAudio(f, a, dest, audio, idx + 1, moves)
            ELSE LET r == Move(f, s_path, d_path) IN
                 IF r.err # "ok" THEN [fs |-> r.fs, moves |-> moves, err |-> r.err]
                 ELSE MoveAudio(r.fs, a, dest, audio, idx + 1,
                                Append(moves, <<s_path, d_path>>))

\* new_audio_paths (line 385)
NewAudioPaths(a, dest, audio) ==
    { ReorgDestFile(a, dest, i, Len(audio), audio[i]) : i \in 1..Len(audio) }

RECURSIVE MoveRest(_, _, _, _, _)
\* lines 387-399: every other file under source_path goes to the same
\* relative directory under dest_path
MoveRest(f, source, dest, rest, moves) ==
    IF rest = << >> THEN [fs |-> f, moves |-> moves, err |-> "ok"]
    ELSE LET s_path == Head(rest)
             rel_dir == SubSeq(DirName(s_path), Len(source) + 1, Len(s_path) - 1)
             d_dir == dest \o rel_dir
             d_path == d_dir \o <<BaseName(s_path)>>
             mk == MakeDirs(f, d_dir)
         IN IF ~IsFile(f, s_path) THEN MoveRest(f, source, dest, Tail(rest), moves)
            ELSE IF mk.err # "ok" THEN [fs |-> f, moves |-> moves, err |-> mk.err]
            ELSE IF s_path = d_path
                 THEN MoveRest(mk.fs, source, dest, Tail(rest), moves)
            ELSE LET r == Move(mk.fs, s_path, d_path) IN
                 IF r.err # "ok" THEN [fs |-> r.fs, moves |-> moves, err |-> r.err]
                 ELSE MoveRest(r.fs, source, dest, Tail(rest),
                               Append(moves, <<s_path, d_path>>))

\* lines 403-406 removing every directory of the walk that lists nothing,
\* dest_path included
CleanupRootsWithDest(f, source, dest) ==
    { root \in WalkDirs(f, source) : ListDir(f, root) = {} }

\* lines 403-406: the directories of list(os.walk(source_path,
\* topdown=False)) that rmdir is called on: not dest_path, and listing
\* neither directories nor files when the walk was taken
CleanupRoots(f, source, dest) ==
    { root \in WalkDirs(f, source) : root # dest /\ ListDir(f, root) = {} }

\* lines 403-410: rmdir on each of them, an exception is passed over
Cleanup(f, source, dest, fails) ==
    [f EXCEPT !.dirs = @ \ (CleanupRoots(f, source, dest) \ fails)]

\* line 416 without the test against stop_at
PruneGuardNoStop(path, stop_at) == IsUnder(path, stop_at)

\* line 416: the loop condition of _prune_empty_parents
PruneGuard(path, stop_at) == IsUnder(path, stop_at) /\ path # stop_at

\* where the book is found: its canonical folder, a folder of another
\* author, a folder of the same author, a folder two levels below another
\* author, a folder outside the library, a folder inside the canonical one
ReorgSources ==
    { DestPath(Asin1),
      LibRoot \o << <<"w">>, <<"o">> >>,
      LibRoot \o << <<"x">>, <<"o">> >>,
      LibRoot \o << <<"w">>, <<"v">>, <<"o">> >>,
      << <<"d", "l">>, <<"t">> >>,
      DestPath(Asin1) \o << <<"s">> >> }

\* the file names the reorganizer gives n .mp3 files
CanonicalNames(n) ==
    [i \in 1..n |-> GenerateFilename(Asin1, ReorgPartStr(i, n), ".mp3")]

\* the audio files of the folder: none, canonical names, other names, a
\* canonical name with a file that sorts before it
AudioNameSets ==
    { << >>, CanonicalNames(1), CanonicalNames(2),
      << <<"a", ".mp3">> >>, << <<"a", ".mp3">>, <<"b", ".M4B">> >>,
      << <<"a", ".mp3">>, CanonicalNames(2)[1] >> }

\* what else the folder holds: a subdirectory e that is empty, holds a
\* file, holds an empty directory g, holds both, or holds a directory g
\* with a file
SubdirKinds == {"none", "empty", "file", "nested", "both", "deep"}

ExtraFiles(top, sub) ==
    (IF top THEN << << <<"n", ".txt">> >> >> ELSE << >>)
    \o (IF sub \in {"file", "both"} THEN << << <<"e">>, <<"n", ".txt">> >> >> ELSE << >>)
    \o (IF sub = "deep" THEN << << <<"e">>, <<"g">>, <<"n", ".txt">> >> >> ELSE << >>)

ExtraDirs(sub) ==
    (IF sub # "none" THEN { << <<"e">> >> } ELSE {})
    \cup (IF sub \in {"nested", "both", "deep"} THEN { << <<"e">>, <<"g">> >> } ELSE {})

\* the library with the book's folder at source; sibling: the folder
\* above the book's holds a file of its own
ReorgFs(source, names, top, sub, sibling) ==
    LET rels == [i \in 1..Len(names) |-> <<names[i]>>] \o ExtraFiles(top, sub)
        paths == [i \in 1..Len(rels) |-> source \o rels[i]]
            \o (IF sibling THEN << DirName(source) \o << <<"k", ".txt">> >> >> ELSE << >>)
        f == AddPayload(FsEmpty, paths, 1)
    IN [f EXCEPT !.dirs = @ \cup Prefixes(LibRoot) \cup Prefixes(source)
                            \cup UNION { Prefixes(source \o d) : d \in ExtraDirs(sub) }]

InitReorg ==
    /\ ServiceRows({Asin1})
    /\ copyRun = CopyIdle
    /\ labelRun = LabelIdle
    /\ sortRun = SortIdle
    /\ destRun = DestIdle
    /\ \E source \in ReorgSources, names \in AudioNameSets, top \in BOOLEAN,
          sub \in SubdirKinds, sibling \in BOOLEAN :
         /\ fs = ReorgFs(source, names, top, sub, sibling)
         /\ reorgRun = [ReorgIdle EXCEPT !.pc = "called", !.source = source,
                                          !.dest = DestPath(Asin1),
                                          !.before = ReorgFs(source, names, top, sub, sibling)]

\* the call ends: it returns or an exception leaves it
ReorgEnd(pc, f, moves) ==
    /\ fs' = f
    /\ reorgRun' = [reorgRun EXCEPT !.pc = pc, !.moves = moves,
                                    !.made = f.dirs \ reorgRun.before.dirs]

ReorgStays == UNCHANGED <<copyRun, labelRun, sortRun, destRun, service_rows>>

\* lines 318-385: the entry checks, the enumeration and the audio moves.
\* lib_root: a library root is configured; found: current_path is given or
\* find_book_path_by_asin finds the folder
ReorgStart(a, lib_root, found) ==
    /\ reorgRun.pc = "called"
    /\ LET audio == ReorgAudioFiles(fs, reorgRun.source)
           mk == MakeDirs(fs, reorgRun.dest)
           mv == MoveAudio(mk.fs, a, reorgRun.dest, audio, 1, << >>)
       IN IF ~lib_root \/ ~found \/ audio = << >>
          THEN ReorgEnd("returned", fs, << >>)
          ELSE IF mk.err # "ok" THEN ReorgEnd("raised", fs, << >>)
          ELSE IF mv.err # "ok" THEN ReorgEnd("raised", mv.fs, mv.moves)
          ELSE /\ fs' = mv.fs
               /\ reorgRun' = [reorgRun EXCEPT !.pc = "audio_moved", !.audio = audio,
                                               !.moves = mv.moves,
                                               !.made = mv.fs.dirs \ fs.dirs]
    /\ ReorgStays

\* lines 387-399
ReorgMoveRest(a) ==
    /\ reorgRun.pc = "audio_moved"
    /\ LET moved == NewAudioPaths(a, reorgRun.dest, reorgRun.audio)
           rest == SetToSeq(WalkFiles(fs, reorgRun.source) \ moved)
           mv == MoveRest(fs, reorgRun.source, reorgRun.dest, rest, reorgRun.moves)
       IN IF mv.err # "ok" THEN ReorgEnd("raised", mv.fs, mv.moves)
          ELSE /\ fs' = mv.fs
               /\ reorgRun' = [reorgRun EXCEPT !.pc = "rest_moved", !.moves = mv.moves,
                                               !.made = @ \cup (mv.fs.dirs \ fs.dirs)]
    /\ ReorgStays

\* lines 402-410 and 426: the emptied directories are removed, then the
\* upward walk starts at source_path unless the book stayed where it was
ReorgCleanup(fails) ==
    /\ reorgRun.pc = "rest_moved"
    /\ fails \subseteq CleanupRoots(fs, reorgRun.source, reorgRun.dest)
    /\ fs' = Cleanup(fs, reorgRun.source, reorgRun.dest, fails)
    /\ reorgRun' = [reorgRun EXCEPT
                      !.pc = IF reorgRun.source # reorgRun.dest THEN "prune" ELSE "pruned",
                      !.removed = fs.dirs \ fs'.dirs,
                      !.fails = fails,
                      !.path = reorgRun.source,
                      !.stop = IF reorgRun.source # reorgRun.dest THEN "none" ELSE "in_place"]
    /\ ReorgStays

\* lines 416-424: one turn of the loop of _prune_empty_parents(source_path,
\* lib_root); raises: os.rmdir fails for a reason of its own
ReorgPruneStep(raises) ==
    /\ reorgRun.pc = "prune"
    /\ LET path == reorgRun.path
           rm == RmDir(fs, path, raises)
       IN IF ~PruneGuard(path, LibRoot)
          THEN /\ fs' = fs
               /\ reorgRun' = [reorgRun EXCEPT !.pc = "pruned",
                                 !.stop = IF path = LibRoot THEN "root" ELSE "outside"]
          ELSE IF ~(IsDir(fs, path) /\ ListDir(fs, path) = {})
          THEN /\ fs' = fs
               /\ reorgRun' = [reorgRun EXCEPT !.pc = "pruned",
                                 !.stop = IF IsDir(fs, path) THEN "not_empty" ELSE "missing"]
          ELSE IF rm.err # "ok"
          THEN /\ fs' = fs
               /\ reorgRun' = [reorgRun EXCEPT !.pc = "pruned", !.stop = "error"]
          ELSE /\ fs' = rm.fs
               /\ reorgRun' = [reorgRun EXCEPT !.pruned = Append(@, path),
                                               !.path = DirName(path)]
    /\ ReorgStays

\* lines 429-430: the two metadata generators have written their files
ReorgMetadata ==
    /\ reorgRun.pc = "pruned"
    /\ reorgRun' = [reorgRun EXCEPT !.pc = "done"]
    /\ UNCHANGED fs
    /\ ReorgStays

NextReorg ==
    \/ \E lib_root \in BOOLEAN, found \in BOOLEAN : ReorgStart(Asin1, lib_root, found)
    \/ ReorgMoveRest(Asin1)
    \/ \E fails \in SUBSET fs.dirs : ReorgCleanup(fails)
    \/ \E raises \in BOOLEAN : ReorgPruneStep(raises)
    \/ ReorgMetadata

SpecReorg == InitReorg /\ [][NextReorg]_vars

\* the book sat in its canonical folder under the file names the
\* reorganizer gives, when the call was made
AlreadyCanonical ==
    LET audio == ReorgAudioFiles(reorgRun.before, reorgRun.source) IN
    /\ reorgRun.source = reorgRun.dest
    /\ audio # << >>
    /\ \A i \in 1..Len(audio) :
         audio[i] = ReorgDestFile(Asin1, reorgRun.dest, i, Len(audio), audio[i])

ReorgOver == reorgRun.pc \in {"pruned", "done"}

\* C19: a call on a book that already sits in its canonical folder under
\* the correct file names moves no file and removes or creates no
\* directory, whatever else the folder holds.
C19_InPlaceNoOp ==
    (ReorgOver /\ AlreadyCanonical) =>
        /\ reorgRun.moves = << >>
        /\ fs.files = reorgRun.before.files
        /\ fs.dirs = reorgRun.before.dirs

\* the directories strictly below the library root
InLibrary(d) == IsUnder(d, LibRoot) /\ d # LibRoot

\* the library root and the destination folder are never deleted, and a
\* deleted directory held no entry
C20_DeletesOnlyEmpty ==
    /\ LibRoot \in fs.dirs => LibRoot \in fs'.dirs
    /\ reorgRun.dest \in fs.dirs => reorgRun.dest \in fs'.dirs
    /\ \A d \in fs.dirs \ fs'.dirs : ListDir(fs, d) = {}

\* the upward walk deletes inside the library only; so does the removal of
\* the emptied directories when the old folder is in the library
C20_DeletesInLibrary ==
    /\ \A i \in 1..Len(reorgRun.pruned) : InLibrary(reorgRun.pruned[i])
    /\ IsUnder(reorgRun.source, LibRoot) => \A d \in reorgRun.removed : InLibrary(d)

\* the upward walk deletes source_path, then its parent, and so on, and
\* where it stops there is the library root, a directory with an entry, no
\* directory, a directory outside the library or a failed rmdir; everything
\* from there upwards is still in place
C20_WalkStops ==
    LET n == Len(reorgRun.pruned)
        at == reorgRun.path
    IN /\ \A i \in 1..n :
            reorgRun.pruned[i] = SubSeq(reorgRun.source, 1, Len(reorgRun.source) - i + 1)
       /\ reorgRun.pc \in {"prune", "pruned", "done"} =>
            at = SubSeq(reorgRun.source, 1, Len(reorgRun.source) - n)
       /\ (ReorgOver /\ reorgRun.stop # "in_place") =>
            /\ reorgRun.stop \in {"root", "outside", "not_empty", "missing", "error"}
            /\ (at = LibRoot) <=> (reorgRun.stop = "root")
            /\ reorgRun.stop = "outside" <=> ~IsUnder(at, LibRoot)
            /\ reorgRun.stop = "not_empty" => (IsDir(fs, at) /\ ListDir(fs, at) # {})
            /\ reorgRun.stop = "error" => (IsDir(fs, at) /\ ListDir(fs, at) = {})
            /\ reorgRun.stop = "missing" => ~IsDir(fs, at)
            /\ \A q \in Prefixes(DirName(at)) :
                 q \in reorgRun.before.dirs => q \in fs.dirs

\* the pruning raises nothing: once the files are moved the call goes on to
\* the metadata generators
C20_NoRaise ==
    reorgRun.pc \in {"rest_moved", "prune", "pruned"} => reorgRun'.pc # "raised"

----------------------------------------------------------------------------
(* Status changes and their log events *)

\* the processing_status stored for a, "none" without a row
StatusOf(reqs, a) ==
    IF HasRequest(reqs, a) THEN RequestOf(reqs, a).processing_status ELSE "none"

\* the step is a create_download call for a, which always answers
CreateStep(a) == response'.op = "create" /\ response'.asin = a

\* the step is one of the processor task of a: no other step changes the
\* task's position
ProcessorTaskStep(a) == proc'[a] # proc[a]

\* the step has written a RequestLogEvent for a
Logged(a) == logs'.n # logs.n /\ logs'.asin = a

\* a status written by create_download or by the processor task comes with
\* a log event of the same asin in the same step, unless it is the pending
\* of a create_download whose log_request_event raised after the commit
C21_ChangeIsLogged ==
    \A a \in Asins :
       ((CreateStep(a) \/ ProcessorTaskStep(a))
          /\ StatusOf(requests', a) # StatusOf(requests, a))
       => \/ Logged(a)
          \/ /\ response'.op = "create"
             /\ response'.code = 500
             /\ StatusOf(requests', a) = "pending"

\* a create_download whose log event is not written leaves the request as
\* it committed it, re-queued
C21_LogFailureKeepsChange ==
    \A a \in Asins :
       (CreateStep(a) /\ response'.code = 500)
       => /\ requests' = QueueRequest(requests, a)
          /\ StatusOf(requests', a) = "pending"
          /\ logs' = logs

\* C21: every change of processing_status made by create_download or by
\* process_completed_download is accompanied by a RequestLogEvent for the
\* same asin, written in the same commit; where the event is written after
\* the commit (create_download), its failure leaves the status change.
C21_StatusChangesLogged == [][C21_ChangeIsLogged /\ C21_LogFailureKeepsChange]_vars

\* a request completed by a collection run has been re-queued by a
\* create_download whose log event was not written: it is pending and the
\* newest log event is still the processor's
C21_Witness ==
    /\ response.op = "create"
    /\ response.code = 500
    /\ StatusOf(requests, response.asin) = "pending"
    /\ logs.asin = response.asin
    /\ logs.last = "Collection scan completed. Review/import items in Library > Import."

----------------------------------------------------------------------------
(* Completed requests *)

\* C25: a request whose processing_status is completed has
\* download_progress 1.0, after a single-book run and after a collection
\* run alike.
C25_CompletedIsFull ==
    \A i \in 1..Len(requests) :
       requests[i].processing_status = "completed" =>
          requests[i].download_progress = Pct(100)

\* the audio files in the destination folder of a
AudioInDest(f, a) ==
    { q \in DOMAIN f.files : DirName(q) = DestPath(a) /\ HasAudioExt(BaseName(q)) }

\* C26: the processor marks the catalog record downloaded, and the request
\* completed, only if at least one audio file was transferred into the
\* destination folder.
C26_DownloadedHasAudio ==
    \A a \in Asins :
       /\ books[a].downloaded => AudioInDest(fs, a) # {}
       /\ (response.op = "process" /\ response.asin = a /\ response.job.scan = "none"
           /\ StatusOf(requests, a) = "completed") => AudioInDest(fs, a) # {}

----------------------------------------------------------------------------
(* A re-queue while the processor task is suspended *)

\* C27: a request that create_download re-queued while the single-book
\* processor task of its asin was suspended at an await (enrichment lookup,
\* metadata generation, cover fetch) stays pending with the progress it
\* has: no later step of that task changes its status or raises its
\* progress.
C27_RequeueSticks ==
    [][\A a \in Asins :
         (/\ ProcessorTaskStep(a)
          /\ proc[a].pc \in {"enrich", "copy", "metadata", "cover"}
          /\ StatusOf(requests, a) = "pending"
          /\ HasRequest(requests', a))
         => /\ StatusOf(requests', a) = "pending"
            /\ RequestOf(requests', a).download_progress
                 <= RequestOf(requests, a).download_progress]_vars

----------------------------------------------------------------------------
(* delete_download with the torrents of two asins in the client, the one   *)
(* asin a prefix of the other                                              *)

\* a request whose download has been started
DownloadingRequest(a) ==
    [NewRequest(a) EXCEPT !.processing_status = "downloading", !.torrent_hash = "hash"]

RECURSIVE AddPayloads(_, _, _)
\* the payloads of the asins in order, counts[i] files for order[i]
AddPayloads(f, order, counts) ==
    IF order = << >> THEN f
    ELSE AddPayloads(AddPayload(f, PayloadPaths(Head(order), Head(counts)), 1),
                     Tail(order), Tail(counts))

InitDelete ==
    /\ copyRun = CopyIdle
    /\ labelRun = LabelIdle
    /\ sortRun = SortIdle
    /\ destRun = DestIdle
    /\ reorgRun = ReorgIdle
    /\ \E n1, n2 \in 0..MaxPayload :
         fs = AddPayloads(FsEmpty, <<Asin1, Asin2>>, <<n1, n2>>)
    /\ books = [a \in {Asin1, Asin2} |->
                  [exists |-> TRUE, downloaded |-> FALSE, cover |-> FALSE]]
    /\ requests = <<DownloadingRequest(Asin1), DownloadingRequest(Asin2)>>
    /\ sessions = << >>
    /\ logs = NoLogs
    /\ \E ts \in SUBSET {Asin1, Asin2} : torrents = ts
    /\ proc = [a \in {Asin1, Asin2} |-> ProcIdle]
    /\ deleting = [a \in {Asin1, Asin2} |-> "no"]
    /\ ops = 0
    /\ response = NoResponse
    /\ cache = [a \in {Asin1, Asin2} |-> NoEntry]
    /\ searches = 0

NextDelete ==
    \E a \in Asins :
       \/ \E qbit_enabled, delete_files \in BOOLEAN :
            DeleteStart(a, qbit_enabled, delete_files)
       \/ \E removed \in SUBSET torrents, raised \in BOOLEAN : DeleteFinish(a, removed, raised)

SpecDelete == InitDelete /\ [][NextDelete]_vars

\* C24: delete_download(asin) removes from the client only torrents tagged
\* for exactly that asin, and deletes only their files; the torrent of
\* another asin, one that has the deleted asin as a prefix included, stays.
C24_OnlyOwnTorrents ==
    [][(torrents' # torrents \/ DOMAIN fs'.files # DOMAIN fs.files) =>
         /\ response'.op = "delete"
         /\ \A t \in torrents \ torrents' : t = response'.asin
         /\ \A q \in (DOMAIN fs.files) \ (DOMAIN fs'.files) :
              SubSeq(q, 1, 2) = DownloadDir(response'.asin)]_vars

----------------------------------------------------------------------------
(* What a relocation leaves behind, and what a rename keeps *)

\* the call moved the book from a folder of the library to another folder
\* and no rmdir failed
Relocated ==
    /\ ReorgOver
    /\ reorgRun.source # reorgRun.dest
    /\ InLibrary(reorgRun.source)
    /\ reorgRun.fails = {}
    /\ reorgRun.stop # "error"

\* C22: after a book was moved to a different folder, every directory under
\* the old folder that holds no file any more, at any depth, is removed,
\* the old folder itself included.
C22_EmptiedDirsRemoved ==
    Relocated =>
       \A d \in reorgRun.before.dirs :
          (IsUnder(d, reorgRun.source) /\ WalkFiles(fs, d) = {}) => d \notin fs.dirs

\* the audio files under a folder, as contents
AudioContents(f, top) ==
    { Content(f, q) : q \in { r \in WalkFiles(f, top) : HasAudioExt(BaseName(r)) } }

AudioCount(f, top) ==
    Cardinality({ r \in WalkFiles(f, top) : HasAudioExt(BaseName(r)) })

\* C23: a call that ran to its end has lost no audio file: the destination
\* holds as many audio files as the book's folder held, each with its
\* content.
C23_NoAudioLost ==
    ReorgOver =>
       /\ AudioCount(fs, reorgRun.dest) = AudioCount(reorgRun.before, reorgRun.source)
       /\ AudioContents(fs, reorgRun.dest) = AudioContents(reorgRun.before, reorgRun.source)
====
